---- MODULE Spec2Model ----
(***************************************************************************)
(* ai-convos-db: the ingestion and synchronisation engine of cli.py.       *)
(*                                                                         *)
(* Python strings are sequences of character codes, so that trimming,      *)
(* joining, formatting and hashing are computed.  None is the sequence     *)
(* <<-1>> and an absent dictionary key is <<-2>>; neither is a string.     *)
(***************************************************************************)
EXTENDS Integers, Sequences, FiniteSets, Bags, TLC

None == <<-1>>
Missing == <<-2>>

\* Python truthiness of a string-or-None value.
Truthy(s) == s # None /\ s # Missing /\ s # <<>>

\* dict.get(key, default) on a field that is Missing when the key is absent.
Get(v, default) == IF v = Missing THEN default ELSE v

\* str.strip(): leading and trailing white space removed.
IsSpace(c) == c \in {9, 10, 11, 12, 13, 28, 29, 30, 31, 32}

RECURSIVE LStrip(_)
LStrip(s) == IF s # <<>> /\ IsSpace(Head(s)) THEN LStrip(Tail(s)) ELSE s

RECURSIVE RStrip(_)
RStrip(s) ==
  IF s # <<>> /\ IsSpace(s[Len(s)]) THEN RStrip(SubSeq(s, 1, Len(s) - 1)) ELSE s

Strip(s) == RStrip(LStrip(s))

\* "\n".join(parts)
RECURSIVE JoinLines(_)
JoinLines(parts) ==
  IF parts = <<>> THEN <<>>
  ELSE IF Len(parts) = 1 THEN parts[1]
  ELSE parts[1] \o <<10>> \o JoinLines(Tail(parts))

\* str(n) for a natural number n.
RECURSIVE Dec(_)
Dec(n) == IF n < 10 THEN <<48 + n>> ELSE Dec(n \div 10) \o <<48 + (n % 10)>>


\* [f(x) for x in s]
MapSeq(s, F(_)) == [i \in 1..Len(s) |-> F(s[i])]

\* The concatenation of a sequence of sequences.
RECURSIVE Flatten(_)
Flatten(ss) == IF ss = <<>> THEN <<>> ELSE ss[1] \o Flatten(Tail(ss))

\* SHA-256 (hashlib.sha256) on 32-bit words kept as <<high 16 bits, low 16 bits>>.
RECURSIVE BitAnd(_, _, _)
BitAnd(a, b, n) ==
  IF n = 0 THEN 0
  ELSE ((a % 2) * (b % 2)) + 2 * BitAnd(a \div 2, b \div 2, n - 1)

\* a AND b for 4-bit a, b, at index 16 * a + b + 1.
AndTable == [i \in 1..256 |-> BitAnd((i - 1) \div 16, (i - 1) % 16, 4)] @@ <<>>

And16(a, b) ==
    4096 * AndTable[16 * (a \div 4096) + (b \div 4096) + 1]
  + 256 * AndTable[16 * ((a \div 256) % 16) + ((b \div 256) % 16) + 1]
  + 16 * AndTable[16 * ((a \div 16) % 16) + ((b \div 16) % 16) + 1]
  + AndTable[16 * (a % 16) + (b % 16) + 1]

Xor16(a, b) == a + b - 2 * And16(a, b)

WXor(x, y) == <<Xor16(x[1], y[1]), Xor16(x[2], y[2])>>
WAnd(x, y) == <<And16(x[1], y[1]), And16(x[2], y[2])>>
WNot(x) == <<65535 - x[1], 65535 - x[2]>>
WAdd(x, y) ==
  LET lo == x[2] + y[2]
  IN <<(x[1] + y[1] + (lo \div 65536)) % 65536, lo % 65536>>

WRotr(x, n) ==
  LET y == IF n >= 16 THEN <<x[2], x[1]>> ELSE x
      k == IF n >= 16 THEN n - 16 ELSE n
  IN <<(y[1] \div (2^k)) + (y[2] % (2^k)) * (2^(16 - k)),
       (y[2] \div (2^k)) + (y[1] % (2^k)) * (2^(16 - k))>>

WShr(x, n) ==
  <<x[1] \div (2^n), (x[2] \div (2^n)) + (x[1] % (2^n)) * (2^(16 - n))>>

ShaK ==
<< <<17034, 12184>>, <<28983, 17553>>, <<46528, 64463>>, <<59829, 56229>>,
   <<14678, 49755>>, <<23025, 4593>>, <<37439, 33444>>, <<43804, 24277>>,
   <<55303, 43672>>, <<4739, 23297>>, <<9265, 34238>>, <<21772, 32195>>,
   <<29374, 23924>>, <<32990, 45566>>, <<39900, 1703>>, <<49563, 61812>>,
   <<58523, 27073>>, <<61374, 18310>>, <<4033, 40390>>, <<9228, 41420>>,
   <<11753, 11375>>, <<19060, 33962>>, <<23728, 43484>>, <<30457, 35034>>,
   <<38974, 20818>>, <<43057, 50797>>, <<45059, 10184>>, <<48985, 32711>>,
   <<50912, 3059>>, <<54695, 37191>>, <<1738, 25425>>, <<5161, 10599>>,
   <<10167, 2693>>, <<11803, 8504>>, <<19756, 28156>>, <<21304, 3347>>,
   <<25866, 29524>>, <<30314, 2747>>, <<33218, 51502>>, <<37490, 11397>>,
   <<41663, 59553>>, <<43034, 26187>>, <<49739, 35696>>, <<51052, 20899>>,
   <<53650, 59417>>, <<54937, 1572>>, <<62478, 13701>>, <<4202, 41072>>,
   <<6564, 49430>>, <<7735, 27656>>, <<10056, 30540>>, <<13488, 48309>>,
   <<14620, 3251>>, <<20184, 43594>>, <<23452, 51791>>, <<26670, 28659>>,
   <<29839, 33518>>, <<30885, 25455>>, <<33992, 30740>>, <<36039, 520>>,
   <<37054, 65530>>, <<42064, 27883>>, <<48889, 41975>>, <<50801, 30962>> >>

ShaH0 ==
<< <<27145, 58983>>, <<47975, 44677>>, <<15470, 62322>>, <<42319, 62778>>,
   <<20750, 21119>>, <<39685, 26764>>, <<8067, 55723>>, <<23520, 52505>> >>

\* The message padded to whole 64-byte blocks: the bytes, 0x80, zeros, and
\* the length in bits as a big-endian number.
ShaPad(msg) ==
  LET n == 64 * (((Len(msg) + 8) \div 64) + 1)
  IN [i \in 1..n |->
        IF i <= Len(msg) THEN msg[i]
        ELSE IF i = Len(msg) + 1 THEN 128
        ELSE IF i > n - 4 THEN ((Len(msg) * 8) \div (256^(n - i))) % 256
        ELSE 0]

\* The message schedule extended from w (at least 16 words) to n words.
\* Splitting the range in halves keeps the evaluation shallow.
RECURSIVE ShaSchedule(_, _)
ShaSchedule(w, n) ==
  IF Len(w) >= n THEN w
  ELSE IF n - Len(w) > 1 THEN ShaSchedule(ShaSchedule(w, n - ((n - Len(w)) \div 2)), n)
  ELSE LET x == w[n - 15]
           y == w[n - 2]
           s0 == WXor(WXor(WRotr(x, 7), WRotr(x, 18)), WShr(x, 3))
           s1 == WXor(WXor(WRotr(y, 17), WRotr(y, 19)), WShr(y, 10))
       IN Append(w, WAdd(WAdd(w[n - 16], s0), WAdd(w[n - 7], s1)))

\* One round of the compression function on the working state <<a, ..., h>>.
ShaRound(s, wt, kt) ==
  LET a == s[1]
      e == s[5]
      S1 == WXor(WXor(WRotr(e, 6), WRotr(e, 11)), WRotr(e, 25))
      ch == WXor(WAnd(e, s[6]), WAnd(WNot(e), s[7]))
      t1 == WAdd(WAdd(WAdd(s[8], S1), WAdd(ch, kt)), wt)
      S0 == WXor(WXor(WRotr(a, 2), WRotr(a, 13)), WRotr(a, 22))
      mj == WXor(WXor(WAnd(a, s[2]), WAnd(a, s[3])), WAnd(s[2], s[3]))
      t2 == WAdd(S0, mj)
  IN <<WAdd(t1, t2), a, s[2], s[3], WAdd(s[4], t1), e, s[6], s[7]>>

\* Rounds lo..hi applied in order.
RECURSIVE ShaRounds(_, _, _, _)
ShaRounds(s, w, lo, hi) ==
  IF lo = hi THEN ShaRound(s, w[lo], ShaK[lo])
  ELSE LET mid == (lo + hi) \div 2
           left == ShaRounds(s, w, lo, mid)
       IN IF left = left THEN ShaRounds(left, w, mid + 1, hi) ELSE left

\* The compression of block b (counted from 0) of the padded bytes p into h.
ShaCompress(h, p, b) ==
  LET w16 == [i \in 1..16 |->
                <<p[64 * b + 4 * i - 3] * 256 + p[64 * b + 4 * i - 2],
                  p[64 * b + 4 * i - 1] * 256 + p[64 * b + 4 * i]>>]
      s == ShaRounds(h, ShaSchedule(w16, 64), 1, 64)
  IN [i \in 1..8 |-> WAdd(h[i], s[i])]

RECURSIVE ShaBlocks(_, _, _)
ShaBlocks(h, p, b) ==
  IF 64 * b >= Len(p) THEN h
  ELSE LET next == ShaCompress(h, p, b)
       IN IF next = next THEN ShaBlocks(next, p, b + 1) ELSE next

Sha256(msg) == ShaBlocks(ShaH0, ShaPad(msg), 0)

\* hexdigest(): 64 lower-case hexadecimal characters.
HexChar(n) == IF n < 10 THEN 48 + n ELSE 87 + n
HexDigest(h) ==
  [i \in 1..64 |->
     LET half == h[((i - 1) \div 8) + 1][(((i - 1) \div 4) % 2) + 1]
     IN HexChar((half \div (16^(3 - ((i - 1) % 4)))) % 16)]

gen_id_unscoped(source, oid) == SubSeq(HexDigest(Sha256(oid)), 1, 16)
gen_id(source, oid) == SubSeq(HexDigest(Sha256(source \o <<58>> \o oid)), 1, 16)


(***************************************************************************)
(* Message content: a string, a list of items, or absent.  A list item is  *)
(* a string or a block (a dict); a block's absent keys are Missing.        *)
(***************************************************************************)
NoInput == [present |-> FALSE, file_path |-> Missing, content |-> Missing,
            new_string |-> Missing]
EmptyInput == [NoInput EXCEPT !.present = TRUE]

Block(type, text, thinking, name, input) ==
  [kind |-> "dict", str |-> <<>>, type |-> type, text |-> text,
   thinking |-> thinking, name |-> name, id |-> Missing, input |-> input]
StrItem(s) ==
  [kind |-> "str", str |-> s, type |-> "missing", text |-> Missing,
   thinking |-> Missing, name |-> Missing, id |-> Missing, input |-> NoInput]

AbsentContent == [kind |-> "absent", str |-> <<>>, items |-> <<>>]
StrContent(s) == [kind |-> "str", str |-> s, items |-> <<>>]
ListContent(items) == [kind |-> "list", str |-> <<>>, items |-> items]

IsDict(item) == item.kind = "dict"
IsStr(item) == item.kind = "str"

\* cli.py:124, the generator's value for one block:
\*   b.get("text", "") or b.get("thinking", "") if b.get("type") in ("text", None) else ""
BlockText(b) ==
  IF b.type \in {"text", "missing"}
  THEN IF Truthy(Get(b.text, <<>>)) THEN b.text ELSE Get(b.thinking, <<>>)
  ELSE <<>>

IsThinking(b) == b.type = "thinking" /\ Truthy(Get(b.thinking, None))
IsToolUse(b) == b.type = "tool_use"
IsToolResult(b) == b.type = "tool_result"
IsAttachment(b) == b.type \in {"image_asset_pointer", "file"}

ThinkingOf(b) == b.thinking
StrOf(item) == item.str

ToolUseEntry(b) ==
  [kind |-> "tool_use", name |-> b.name,
   input |-> IF b.input.present THEN b.input ELSE EmptyInput,
   id |-> Get(b.id, None), output |-> Missing]
\* The bounded blocks carry no tool_use_id and no content key.
ToolResultEntry(b) ==
  [kind |-> "tool_result", name |-> Missing, input |-> NoInput,
   id |-> None, output |-> <<>>]
\* The bounded blocks carry no file_name, content_type, size or url key.
AttachmentEntry(b) ==
  [filename |-> Get(b.name, None), mime_type |-> None, size |-> None, url |-> None]

Extracted(status, text, thinking, tools, attachments) ==
  [status |-> status, text |-> text, thinking |-> thinking, tools |-> tools,
   attachments |-> attachments]

Pending == Extracted("pending", <<>>, None, <<>>, <<>>)

\* b["name"] of a tool_use block without a name raises KeyError.
extract_content(content) ==
  IF content.kind = "str"
  THEN Extracted("ok", content.str, None, <<>>, <<>>)
  ELSE IF content.kind # "list"
  THEN Extracted("ok", <<>>, None, <<>>, <<>>)
  ELSE
    LET blocks == SelectSeq(content.items, IsDict)
        joined == Strip(JoinLines(MapSeq(blocks, BlockText)))
        strs == Strip(JoinLines(MapSeq(SelectSeq(content.items, IsStr), StrOf)))
        text == IF joined # <<>> THEN joined ELSE strs
        think == Strip(JoinLines(MapSeq(SelectSeq(blocks, IsThinking), ThinkingOf)))
        uses == SelectSeq(blocks, IsToolUse)
    IN IF \E i \in 1..Len(uses) : uses[i].name = Missing
       THEN Extracted("KeyError", <<>>, None, <<>>, <<>>)
       ELSE Extracted("ok", text, IF think # <<>> THEN think ELSE None,
                      MapSeq(uses, ToolUseEntry)
                        \o MapSeq(SelectSeq(blocks, IsToolResult), ToolResultEntry),
                      MapSeq(SelectSeq(blocks, IsAttachment), AttachmentEntry))


(***************************************************************************)
(* Storage: six tables keyed by id.  A table is a bag of rows, so that the *)
(* number of rows stored under one id is something the model can count.    *)
(* Rows carry the key, the parent reference and the columns the            *)
(* normalizers fill from their input; the remaining columns of the schema  *)
(* are replaced together with them by the same statement.                  *)
(***************************************************************************)
ConvRow(id, source, title, created_at, updated_at, cwd) ==
  [id |-> id, source |-> source, title |-> title, created_at |-> created_at,
   updated_at |-> updated_at, cwd |-> cwd]
MsgRow(id, cid, role, text, thinking, created_at) ==
  [id |-> id, conversation_id |-> cid, role |-> role, content |-> text,
   thinking |-> thinking, created_at |-> created_at]
ToolRow(id, mid, tool_name, input, status) ==
  [id |-> id, message_id |-> mid, tool_name |-> tool_name, input |-> input,
   status |-> status]
AttachRow(id, mid, filename) == [id |-> id, message_id |-> mid, filename |-> filename]
ArtifactRow(id, cid, title) == [id |-> id, conversation_id |-> cid, title |-> title]
EditRow(id, mid, file_path, edit_type, text) ==
  [id |-> id, message_id |-> mid, file_path |-> file_path, edit_type |-> edit_type,
   content |-> text]

ParseResult(convs, msgs, tools, attachs, artifacts, edits) ==
  [convs |-> convs, msgs |-> msgs, tools |-> tools, attachs |-> attachs,
   artifacts |-> artifacts, edits |-> edits]

init_schema ==
  [conversations |-> EmptyBag, messages |-> EmptyBag, tool_calls |-> EmptyBag,
   attachments |-> EmptyBag, artifacts |-> EmptyBag, file_edits |-> EmptyBag]

TableIds(table) == {x.id : x \in DOMAIN table}
ListIds(rows) == {rows[i].id : i \in 1..Len(rows)}

\* Variants of the insert statement used to test the merge properties:
\* a plain INSERT into a table without a key, INSERT OR IGNORE, and a
\* replacement of the whole table.
InsertPlain(table, row) == table (+) SetToBag({row})
InsertOrIgnore(table, row) ==
  IF row.id \in TableIds(table) THEN table ELSE table (+) SetToBag({row})
TruncateInsert(table, row) == SetToBag({row})

\* INSERT OR REPLACE on a table whose id is the PRIMARY KEY.
InsertOrReplace(table, row) ==
  [x \in {y \in DOMAIN table : y.id # row.id} \cup {row} |->
     IF x = row THEN 1 ELSE table[x]]

RECURSIVE InsertAll(_, _)
InsertAll(table, rows) ==
  IF rows = <<>> THEN table
  ELSE InsertAll(InsertOrReplace(table, Head(rows)), Tail(rows))

new_convs(d, r) == ListIds(r.convs) \ TableIds(d.conversations)
new_msgs(d, r) == ListIds(r.msgs) \ TableIds(d.messages)
updated_keeps_new(d, r) ==
  {r.msgs[i].conversation_id : i \in {j \in 1..Len(r.msgs) : r.msgs[j].id \in new_msgs(d, r)}}
updated(d, r) ==
  {r.msgs[i].conversation_id : i \in {j \in 1..Len(r.msgs) : r.msgs[j].id \in new_msgs(d, r)}}
    \ new_convs(d, r)

upsert(d, r) ==
  [db |-> [conversations |-> InsertAll(d.conversations, r.convs),
           messages |-> InsertAll(d.messages, r.msgs),
           tool_calls |-> InsertAll(d.tool_calls, r.tools),
           attachments |-> InsertAll(d.attachments, r.attachs),
           artifacts |-> InsertAll(d.artifacts, r.artifacts),
           file_edits |-> InsertAll(d.file_edits, r.edits)],
   ret |-> <<Len(r.convs), Len(r.msgs), Len(r.tools), Len(r.attachs), Len(r.edits),
             Cardinality(new_convs(d, r)), Cardinality(updated(d, r))>>]


VARIABLES db, obs, content, extracted, idq, session, ids, fs, state, disk, cycle, run

vars == <<db, obs, content, extracted, idq, session, ids, fs, state, disk, cycle, run>>

\* The variables of the sync command, and their values where no sync runs.
syncvars == <<fs, state, disk, cycle, run>>
NoSync == fs = <<>> /\ state = <<>> /\ disk = <<>> /\ cycle = <<>> /\ run = <<>>

(***************************************************************************)
(* Session logs.  A log is the list of JSON objects load_jsonl returns for *)
(* the file; the tool that owns the file appends to it.                    *)
(***************************************************************************)
ClaudeCode == <<99, 108, 97, 117, 100, 101, 45, 99, 111, 100, 101>>  \* "claude-code"
Codex == <<99, 111, 100, 101, 120>>                                  \* "codex"
ToolPrefix == <<116, 111, 111, 108, 58>>                             \* "tool:"
ToolOutPrefix == <<116, 111, 111, 108, 111, 117, 116, 58>>           \* "toolout:"
EditPrefix == <<101, 100, 105, 116, 58>>                             \* "edit:"
EditTools == {<<87, 114, 105, 116, 101>>, <<69, 100, 105, 116>>,
              <<77, 117, 108, 116, 105, 69, 100, 105, 116>>}  \* Write, Edit, MultiEdit
Shell == <<115, 104, 101, 108, 108>>                                 \* "shell"

\* gen_id, tabulated in ids for the keys the sessions use.
IdOf(source, oid) == ids[<<source, oid>>]

\* f"{cid}:{idx}", f"tool:{cid}:{idx}:{j}" and the like.
Key2(cid, i) == cid \o <<58>> \o Dec(i)
Key3(cid, i, j) == cid \o <<58>> \o Dec(i) \o <<58>> \o Dec(j)

Indices(s) == [k \in 1..Len(s) |-> k]
\* A variant that keeps the case of the tool name.
KeepCase(s) == s
Lower(s) == [k \in 1..Len(s) |-> IF s[k] \in 65..90 THEN s[k] + 32 ELSE s[k]]

MissingContent == [kind |-> "missing", str |-> <<>>, items |-> <<>>]
OrDefault(c, default) == IF c.kind = "missing" THEN default ELSE c

\* What a session parser gives: None, a session, or an exception.
NoSession ==
  [found |-> FALSE, raised |-> FALSE, conv |-> <<>>, msgs |-> <<>>, tools |-> <<>>,
   edits |-> <<>>]
Raised == [NoSession EXCEPT !.raised = TRUE]
Session(conv, msgs, tools, edits) ==
  [found |-> TRUE, raised |-> FALSE, conv |-> <<conv>>, msgs |-> msgs, tools |-> tools,
   edits |-> edits]

\* [ts_from_iso(e["timestamp"]) for e in events if "timestamp" in e]
HasTimestamp(e) == e.timestamp # Missing
TimestampOf(e) == e.timestamp
Timestamps(events) == MapSeq(SelectSeq(events, HasTimestamp), TimestampOf)
FirstOrNone(s) == IF s = <<>> THEN None ELSE s[1]
LastOrNone(s) == IF s = <<>> THEN None ELSE s[Len(s)]

\* A Claude Code event: type, the message (when the event has one) with its
\* content and text keys, a timestamp and a cwd.
ClaudeCodeEvent(type, has_message, c, text, timestamp, cwd) ==
  [type |-> type, has_message |-> has_message, content |-> c, text |-> text,
   timestamp |-> timestamp, cwd |-> cwd]

\* The title parse_claude_code_session derives from the path /p/s.jsonl: "p (s)".
ClaudeCodeTitle == <<112, 32, 40, 115, 41>>

HasMessage(e) == e.has_message
\* A variant that numbers the message events from the newest to the oldest.
msg_events_newest_first(events) ==
  [k \in 1..Len(SelectSeq(events, HasMessage)) |->
     SelectSeq(events, HasMessage)[Len(SelectSeq(events, HasMessage)) + 1 - k]]
msg_events(events) == SelectSeq(events, HasMessage)

parse_claude_code_session(jsonl, events) ==
  IF events = <<>> THEN NoSession
  ELSE
    LET cid == IdOf(ClaudeCode, jsonl)
        timestamps == Timestamps(events)
        IsSystem(e) == e.type = "system"
        system == SelectSeq(events, IsSystem)
        mevents == msg_events(events)
        mid(k) == IdOf(ClaudeCode, Key2(cid, k - 1))
        make_msg(k) ==
          LET e == mevents[k]
              c == extract_content(
                     OrDefault(e.content,
                               IF e.text = Missing THEN StrContent(<<>>)
                               ELSE StrContent(e.text)))
          IN MsgRow(mid(k), cid, e.type, c.text, c.thinking, Get(e.timestamp, None))
        tools_of(k) == extract_content(OrDefault(mevents[k].content, ListContent(<<>>))).tools
        make_tools(k) ==
          LET make_tool(j) ==
                LET t == tools_of(k)[j]
                IN ToolRow(IdOf(ClaudeCode, ToolPrefix \o Key3(cid, k - 1, j - 1)), mid(k),
                           Get(t.name, t.id), t.input,
                           IF t.output # Missing THEN "complete" ELSE "pending")
          IN MapSeq(Indices(tools_of(k)), make_tool)
        make_edits(k) ==
          LET IsEdit(j) ==
                LET t == tools_of(k)[j]
                IN t.name \in EditTools /\ Truthy(Get(t.input.file_path, None))
              make_edit(j) ==
                LET t == tools_of(k)[j]
                IN EditRow(IdOf(ClaudeCode, EditPrefix \o Key3(cid, k - 1, j - 1)), mid(k),
                           t.input.file_path, Lower(t.name),
                           IF Truthy(Get(t.input.content, None)) THEN t.input.content
                           ELSE Get(t.input.new_string, <<>>))
          IN MapSeq(SelectSeq(Indices(tools_of(k)), IsEdit), make_edit)
        HasText(k) ==
          extract_content(OrDefault(mevents[k].content, StrContent(<<>>))).text # <<>>
        msgs == MapSeq(SelectSeq(Indices(mevents), HasText), make_msg)
        Fails(k) ==
          extract_content(OrDefault(mevents[k].content, StrContent(<<>>))).status # "ok"
    IN IF \E k \in 1..Len(mevents) : Fails(k) THEN Raised
       ELSE IF msgs = <<>> THEN NoSession
       ELSE Session(ConvRow(cid, ClaudeCode, ClaudeCodeTitle,
                            FirstOrNone(timestamps), LastOrNone(timestamps),
                            IF system = <<>> THEN None ELSE Get(system[1].cwd, None)),
                    msgs,
                    Flatten(MapSeq(Indices(mevents), make_tools)),
                    Flatten(MapSeq(Indices(mevents), make_edits)))

\* parse_claude_code and parse_codex: the sessions of the listed files that
\* are not None, gathered into one ParseResult.
GatherSessions(s) == ParseResult(s.conv, s.msgs, s.tools, <<>>, <<>>, s.edits)

parse_claude_code(jsonl, events) == GatherSessions(parse_claude_code_session(jsonl, events))

\* The stem of the path /q/r.jsonl.
CodexStem == <<114>>

\* A Codex event: type, payload (when the event has one) and timestamp.  A
\* payload has a type, a role, content blocks, a name, arguments, a call_id
\* and a cwd; arguments is a dict that may hold a command, which is a string
\* or a list of strings.
NoArgs == [given |-> FALSE, command |-> MissingContent]
Args(command) == [given |-> TRUE, command |-> command]
Payload(type, role, blocks, name, arguments, cwd) ==
  [type |-> type, role |-> role, content |-> blocks, name |-> name,
   arguments |-> arguments, call_id |-> Missing, cwd |-> cwd]
NoPayload == Payload("missing", "missing", <<>>, Missing, NoArgs, Missing)
CodexEvent(type, has_payload, payload, timestamp) ==
  [type |-> type, has_payload |-> has_payload, payload |-> payload,
   timestamp |-> timestamp]

\* " ".join(c)
RECURSIVE JoinSpaces(_)
JoinSpaces(parts) ==
  IF parts = <<>> THEN <<>>
  ELSE IF Len(parts) = 1 THEN parts[1]
  ELSE parts[1] \o <<32>> \o JoinSpaces(Tail(parts))

Min(S) == CHOOSE x \in S : \A y \in S : x <= y
Max(S) == CHOOSE x \in S : \A y \in S : x >= y

\* The positions just after an occurrence of one of the words in s.
WordEnds(s, words) ==
  {qw[1] + Len(qw[2]) :
     qw \in {x \in (1..Len(s)) \X words :
               /\ x[1] + Len(x[2]) - 1 <= Len(s)
               /\ SubSeq(s, x[1], x[1] + Len(x[2]) - 1) = x[2]}}
NoLineBreak(s, lo, hi) == \A m \in lo..hi : s[m] # 10

\* Group 1 of re.search(r'(?:cat|echo).*[>].*?([^\s>]+)', cmd), or None.
RedirectTarget(cmd) ==
  LET IsTok(k) == ~IsSpace(cmd[k]) /\ cmd[k] # 62
      Toks(q) == {k \in (q + 1)..Len(cmd) : IsTok(k)}
      Cands == {x \in WordEnds(cmd, {<<99, 97, 116>>, <<101, 99, 104, 111>>}) \X (1..Len(cmd)) :
                  /\ x[2] >= x[1] /\ cmd[x[2]] = 62
                  /\ NoLineBreak(cmd, x[1], x[2] - 1)
                  /\ Toks(x[2]) # {}
                  /\ NoLineBreak(cmd, x[2] + 1, Min(Toks(x[2])) - 1)}
  IN IF Cands = {} THEN None
     ELSE LET a == Min({x[1] : x \in Cands})
              q == Max({x[2] : x \in {y \in Cands : y[1] = a}})
              first == Min(Toks(q))
              last == Max({k \in first..Len(cmd) : \A m \in first..k : IsTok(m)})
          IN SubSeq(cmd, first, last)

\* Group 1 of re.search(r'(?:sed|awk).*?([^\s]+)$', cmd), or None.
LastWord(cmd) ==
  LET end == IF cmd # <<>> /\ cmd[Len(cmd)] = 10 THEN Len(cmd) - 1 ELSE Len(cmd)
      Cands == {x \in WordEnds(cmd, {<<115, 101, 100>>, <<97, 119, 107>>}) \X (1..end) :
                  /\ x[2] >= x[1]
                  /\ \A m \in x[2]..end : ~IsSpace(cmd[m])
                  /\ NoLineBreak(cmd, x[1], x[2] - 1)}
  IN IF Cands = {} THEN None
     ELSE LET a == Min({x[1] : x \in Cands})
          IN SubSeq(cmd, Min({x[2] : x \in {y \in Cands : y[1] = a}}), end)

\* The text blocks of a payload joined by newlines.
extract_msg_text(p) ==
  LET IsText(b) ==
        b.type \in {"input_text", "output_text", "text"} /\ Truthy(Get(b.text, None))
      TextOf(b) == b.text
  IN JoinLines(MapSeq(SelectSeq(p.content, IsText), TextOf))

\* A dict of arguments is truthy when it has a key.
norm_args(p) == p.arguments
HasArgs(p) == norm_args(p).given /\ norm_args(p).command.kind # "missing"

\* cmd := " ".join(c) if isinstance(c, list) else c, empty when c is falsy.
CommandOf(p) ==
  LET c == norm_args(p).command
  IN IF c.kind = "list" THEN JoinSpaces(c.items) ELSE c.str

parse_codex_session(jsonl, events) ==
  IF events = <<>> THEN NoSession
  ELSE
    LET cid == IdOf(Codex, jsonl)
        timestamps == Timestamps(events)
        IsMeta(e) == e.type = "session_meta"
        meta == SelectSeq(events, IsMeta)
        IsItem(k) == events[k].type = "response_item" /\ events[k].has_payload
        items == SelectSeq(Indices(events), IsItem)
        p(k) == events[k].payload
        mid(k) == IdOf(Codex, Key2(cid, k - 1))
        at(k) == IF k <= Len(timestamps) THEN timestamps[k] ELSE None
        IsMsg(k) ==
          /\ p(k).type = "message"
          /\ p(k).role \notin {"developer", "system"}
          /\ extract_msg_text(p(k)) # <<>>
        make_msg(k) ==
          MsgRow(mid(k), cid, p(k).role, Strip(extract_msg_text(p(k))), None, at(k))
        IsCall(k) == p(k).type = "function_call" /\ HasArgs(p(k))
        make_call(k) ==
          ToolRow(IdOf(Codex, ToolPrefix \o Key2(cid, k - 1)), mid(k), p(k).name,
                  norm_args(p(k)), "pending")
        IsOutput(k) == p(k).type = "function_call_output"
        make_output(k) ==
          ToolRow(IdOf(Codex, ToolOutPrefix \o Key2(cid, k - 1)), mid(k),
                  Get(p(k).call_id, None), NoArgs, "complete")
        IsShell(k) == IsCall(k) /\ p(k).name = Shell /\ CommandOf(p(k)) # <<>>
        make_edits(k) ==
          LET cmd == CommandOf(p(k))
              found == <<RedirectTarget(cmd), LastWord(cmd)>>
              Matches(j) == found[j] # None
              make_edit(j) ==
                EditRow(IdOf(Codex, EditPrefix \o Key3(cid, k - 1, j - 1)), mid(k),
                        found[j], Shell, cmd)
          IN MapSeq(SelectSeq(<<1, 2>>, Matches), make_edit)
        msgs == MapSeq(SelectSeq(items, IsMsg), make_msg)
        cwd == IF meta = <<>> THEN None ELSE Get(meta[1].payload.cwd, None)
        \* p["role"] of a message and p["name"] of a call raise KeyError
        \* when the key is absent.
        NoRole == \E k \in 1..Len(items) : IsMsg(items[k]) /\ p(items[k]).role = "missing"
        NoName == \E k \in 1..Len(items) : IsCall(items[k]) /\ p(items[k]).name = Missing
    IN IF NoRole THEN Raised
       ELSE IF msgs = <<>> THEN NoSession
       ELSE IF NoName THEN Raised
       ELSE Session(ConvRow(cid, Codex, IF Truthy(cwd) THEN cwd ELSE CodexStem,
                            FirstOrNone(timestamps), LastOrNone(timestamps), cwd),
                    msgs,
                    MapSeq(SelectSeq(items, IsCall), make_call)
                      \o MapSeq(SelectSeq(items, IsOutput), make_output),
                    Flatten(MapSeq(SelectSeq(items, IsShell), make_edits)))

parse_codex(jsonl, events) == GatherSessions(parse_codex_session(jsonl, events))

(***************************************************************************)
(* Merging: upsert is applied to batches drawn from a small universe of    *)
(* rows.  A batch lists rows in any order and may list one id twice.       *)
(***************************************************************************)
Orderings(S) ==
  UNION {{f \in [1..Cardinality(T) -> T] : \A i, j \in DOMAIN f : f[i] = f[j] => i = j}
           : T \in SUBSET S}

ConvRows == {ConvRow(<<99, 49>>, <<115>>, <<65>>, None, None, None),
             ConvRow(<<99, 49>>, <<115>>, <<66>>, None, None, None),
             ConvRow(<<99, 50>>, <<115>>, <<65>>, None, None, None)}
MsgRows == {MsgRow(<<109, 49>>, <<99, 49>>, "user", <<120>>, None, None),
            MsgRow(<<109, 50>>, <<99, 49>>, "assistant", <<121>>, None, None)}
ChildRows ==
  {ParseResult(<<>>, <<>>, <<>>, <<>>, <<>>, <<>>),
   ParseResult(<<>>, <<>>,
               <<ToolRow(<<116, 49>>, <<109, 49>>, <<82>>, NoInput, "pending")>>,
               <<AttachRow(<<97, 49>>, <<109, 49>>, <<102>>)>>,
               <<ArtifactRow(<<114, 49>>, <<99, 49>>, <<65>>)>>,
               <<EditRow(<<101, 49>>, <<109, 49>>, <<47, 97>>, <<119>>, <<>>)>>)}

Batches ==
  {[ch EXCEPT !.convs = cs, !.msgs = ms] :
     cs \in Orderings(ConvRows), ms \in Orderings(MsgRows), ch \in ChildRows}

\* Every batch handed to upsert comes from a normalizer, which lists the
\* conversation of each message it lists unless that conversation is stored.
WellParented(d, r) ==
  \A i \in 1..Len(r.msgs) :
    r.msgs[i].conversation_id \in ListIds(r.convs) \cup TableIds(d.conversations)

NoCall ==
  [last |-> ParseResult(<<>>, <<>>, <<>>, <<>>, <<>>, <<>>),
   ret |-> <<0, 0, 0, 0, 0, 0, 0>>, rel |-> "none", replaced |-> FALSE,
   log |-> <<>>, before |-> <<>>]

Continues(prev, r) ==
  /\ Cardinality(ListIds(r.convs)) = 1
  /\ ListIds(prev.convs) = ListIds(r.convs)
  /\ prev.msgs # <<>>
  /\ ListIds(prev.msgs) \subseteq ListIds(r.msgs)
  /\ ListIds(prev.msgs) # ListIds(r.msgs)

Replaces(table, rows) ==
  \E i \in 1..Len(rows) : \E x \in DOMAIN table : x.id = rows[i].id /\ x # rows[i]

\* do_sync: c, m, t, a, e, n, u = upsert(conn, r), for the result r of a job
\* that read the log given (no log for a batch that comes from elsewhere).
Upsert(r, log) ==
  /\ db' = upsert(db, r).db
  /\ obs' = [last |-> r, ret |-> upsert(db, r).ret, log |-> log, before |-> obs.log,
             rel |-> IF r = obs.last /\ obs.rel # "none" THEN "again"
                     ELSE IF Continues(obs.last, r) THEN "continued" ELSE "other",
             replaced |-> \/ Replaces(db.conversations, r.convs)
                          \/ Replaces(db.messages, r.msgs)]

\* A job whose parser raises: do_sync reports it and goes on to the next job.
Failed(log) ==
  /\ db' = db
  /\ obs' = [obs EXCEPT !.rel = "failed", !.log = log, !.before = obs.log]

\* The last job was merged.
Merged == obs.rel \notin {"none", "failed"}

NoQuery == [source |-> <<>>, oid |-> <<>>, out |-> <<>>]
NoLog == [source |-> <<>>, jsonl |-> <<>>, events |-> <<>>]
NoIds == <<>>

InitMerge ==
  /\ db = init_schema
  /\ obs = NoCall
  /\ content = AbsentContent
  /\ extracted = Pending
  /\ idq = NoQuery
  /\ session = NoLog
  /\ ids = NoIds
  /\ NoSync

NextMerge ==
  \E r \in Batches :
    /\ WellParented(db, r)
    /\ Upsert(r, <<>>)
    /\ UNCHANGED <<content, extracted, idq, session, ids>>
    /\ UNCHANGED syncvars

SpecMerge == InitMerge /\ [][NextMerge]_vars

\* The tables of the storage paired with the lists of a batch.
TablePairs ==
  {<<"conversations", "convs">>, <<"messages", "msgs">>, <<"tool_calls", "tools">>,
   <<"attachments", "attachs">>, <<"artifacts", "artifacts">>, <<"file_edits", "edits">>}

\* C1: a call of upsert with the batch of the call directly before it leaves
\* all six tables exactly as they were after that call.
C1_Idempotent == [][obs'.rel = "again" => db' = db]_vars

C1_Remerged ==
  /\ obs.rel = "again"
  /\ obs.last.convs # <<>> /\ obs.last.msgs # <<>> /\ obs.last.tools # <<>>
  /\ db.conversations # EmptyBag /\ db.messages # EmptyBag

\* C2: every table always holds exactly one row per id; a call of upsert
\* leaves in each table exactly the ids stored before plus the ids of the
\* batch, so no id disappears; and when a conversation merged with messages
\* M1 is merged again under the same id with messages M2 that include M1,
\* it is stored as 1 conversation row and one message row per message of M2.
C2_NoDuplicationNoDeletion ==
  /\ [](LET RowsOf(table, id) ==
              BagCardinality([x \in {y \in DOMAIN table : y.id = id} |-> table[x]])
        IN \A p \in TablePairs : \A id \in TableIds(db[p[1]]) : RowsOf(db[p[1]], id) = 1)
  /\ [][LET RowsIn(table, among) ==
              BagCardinality([x \in {y \in DOMAIN table : y.id \in among} |-> table[x]])
            IdsKept ==
              \A p \in TablePairs :
                TableIds(db'[p[1]]) = TableIds(db[p[1]]) \cup ListIds(obs'.last[p[2]])
            Continuation ==
              Continues(obs.last, obs'.last) =>
                /\ RowsIn(db'.conversations, ListIds(obs'.last.convs)) = 1
                /\ RowsIn(db'.messages, ListIds(obs'.last.msgs))
                     = Cardinality(ListIds(obs'.last.msgs))
        IN IdsKept /\ Continuation]_vars

C2_Continued ==
  /\ obs.rel = "continued"
  /\ BagCardinality(db.conversations) = 1
  /\ BagCardinality(db.messages) = 2

\* C3: after upsert(r), the row stored under an id that occurs in r is the
\* row r lists for that id (the last one where r lists the id twice), in
\* every column, and every stored row whose id is not in r is unchanged.
C3_WholeRowReplacement ==
  [][LET LastRow(rows, id) ==
           rows[CHOOSE i \in 1..Len(rows) :
                  rows[i].id = id /\ \A j \in (i + 1)..Len(rows) : rows[j].id # id]
         Replaced(p) ==
           LET rows == obs'.last[p[2]]
           IN /\ \A id \in ListIds(rows) :
                   {x \in DOMAIN db'[p[1]] : x.id = id} = {LastRow(rows, id)}
              /\ \A x \in DOMAIN db[p[1]] :
                   x.id \notin ListIds(rows) =>
                     x \in DOMAIN db'[p[1]] /\ db'[p[1]][x] = db[p[1]][x]
              /\ \A x \in DOMAIN db'[p[1]] :
                   x.id \notin ListIds(rows) => x \in DOMAIN db[p[1]]
     IN \A p \in TablePairs : Replaced(p)]_vars

C3_TitleReplaced ==
  /\ obs.replaced
  /\ Len(obs.last.convs) = 1
  /\ obs.last.convs[1] \in DOMAIN db.conversations
  /\ BagCardinality(db.conversations) = 2

MaxBlocks == 3

ReadInput == [EmptyInput EXCEPT !.file_path = <<47, 97>>]

Items ==
  { Block("text", <<88>>, Missing, Missing, NoInput),
    Block("text", <<89>>, Missing, Missing, NoInput),
    Block("text", <<32>>, Missing, Missing, NoInput),
    Block("missing", Missing, <<84>>, Missing, NoInput),
    Block("thinking", Missing, <<84>>, Missing, NoInput),
    Block("thinking", Missing, Missing, Missing, NoInput),
    Block("tool_use", Missing, Missing, <<82, 101, 97, 100>>, ReadInput),
    Block("tool_use", Missing, Missing, Missing, EmptyInput),
    Block("tool_result", Missing, Missing, Missing, NoInput),
    Block("file", Missing, Missing, <<102>>, NoInput),
    StrItem(<<115>>) }

Contents ==
  {AbsentContent, StrContent(<<>>), StrContent(<<88>>), StrContent(<<32, 88, 32>>)}
    \cup {ListContent(items) : items \in UNION {[1..n -> Items] : n \in 0..MaxBlocks}}

InitExtract ==
  /\ content \in Contents
  /\ extracted = Pending
  /\ db = init_schema
  /\ obs = NoCall
  /\ idq = NoQuery
  /\ session = NoLog
  /\ ids = NoIds
  /\ NoSync

ExtractContent ==
  /\ extracted.status = "pending"
  /\ extracted' = extract_content(content)
  /\ UNCHANGED <<content, db, obs, idq, session, ids>>
  /\ UNCHANGED syncvars

NextExtract == ExtractContent

SpecExtract == InitExtract /\ [][NextExtract]_vars

\* C9: whenever extract_content returns, text is the trimmed newline-join of
\* the text of the blocks typed "text" or untyped and of nothing else, and
\* reasoning is the trimmed newline-join of the "thinking" blocks or null; a
\* plain string gives text = the string and reasoning = null.
C9_ContentUnion ==
  LET IsTextBlock(item) == item.kind = "dict" /\ item.type \in {"text", "missing"}
      IsThinkingBlock(item) == item.kind = "dict" /\ item.type = "thinking"
      TextOf(b) == Get(b.text, <<>>)
      ReasoningOf(b) == Get(b.thinking, <<>>)
      NonEmpty(s) == s # <<>>
      text == IF content.kind = "str" THEN content.str
              ELSE Strip(JoinLines(MapSeq(SelectSeq(content.items, IsTextBlock), TextOf)))
      r == Strip(JoinLines(SelectSeq(MapSeq(SelectSeq(content.items, IsThinkingBlock),
                                            ReasoningOf), NonEmpty)))
  IN extracted.status = "ok" =>
       /\ extracted.text = text
       /\ extracted.thinking = (IF content.kind = "str" \/ r = <<>> THEN None ELSE r)

\* C10: extract_content returns a result for every content value and never
\* raises, whatever fields the blocks are missing.
C10_NeverFails == extracted.status \in {"pending", "ok"}

(***************************************************************************)
(* Identity: gen_id applied to bounded sources and keys.                   *)
(***************************************************************************)
MaxKeyLen == 3
MaxCalls == 2

Claude == <<99, 108, 97, 117, 100, 101>>          \* "claude"
ChatGPT == <<99, 104, 97, 116, 103, 112, 116>>    \* "chatgpt"
Sources == {Claude, ChatGPT, ClaudeCode, Codex}

\* "/Users/someone/.claude/projects/-Users-someone-work/0123456789abcdef.jsonl"
LongKey ==
  <<47, 85, 115, 101, 114, 115, 47, 115, 111, 109, 101, 111, 110, 101, 47, 46, 99, 108,
    97, 117, 100, 101, 47, 112, 114, 111, 106, 101, 99, 116, 115, 47, 45, 85, 115, 101,
    114, 115, 45, 115, 111, 109, 101, 111, 110, 101, 45, 119, 111, 114, 107, 47, 48, 49,
    50, 51, 52, 53, 54, 55, 56, 57, 97, 98, 99, 100, 101, 102, 46, 106, 115, 111, 110,
    108>>
Keys == {LongKey} \cup UNION {[1..n -> {120, 49}] : n \in 0..MaxKeyLen}

InitId ==
  /\ idq \in {[source |-> s, oid |-> k, out |-> <<>>] : s \in Sources, k \in Keys}
  /\ db = init_schema
  /\ obs = NoCall
  /\ content = AbsentContent
  /\ extracted = Pending
  /\ session = NoLog
  /\ ids = NoIds
  /\ NoSync

GenId ==
  /\ Len(idq.out) < MaxCalls
  /\ idq' = [idq EXCEPT !.out = Append(@, gen_id(idq.source, idq.oid))]
  /\ UNCHANGED <<db, obs, content, extracted, session, ids>>
  /\ UNCHANGED syncvars

NextId == GenId

SpecId == InitId /\ [][NextId]_vars

\* C5: every call of gen_id(source, key) returns the first 16 hexadecimal
\* characters of the SHA-256 digest of "source:key" (for ("claude", "x")
\* that is db5c72b9eacb5a8c), every call for the same source and key
\* returns the same id, and the id under "claude" differs from the id of
\* the same key under "chatgpt".
C5_IdentityScheme ==
  idq.out # <<>> =>
    LET digest == HexDigest(Sha256(idq.source \o <<58>> \o idq.oid))
    IN /\ \A i \in 1..Len(idq.out) :
            /\ Len(idq.out[i]) = 16
            /\ \A k \in 1..16 : idq.out[i][k] \in (48..57) \cup (97..102)
            /\ idq.out[i] = SubSeq(digest, 1, 16)
            /\ idq.out[i] = idq.out[1]
       /\ (idq.source = Claude /\ idq.oid = <<120>>) =>
            idq.out[1] = <<100, 98, 53, 99, 55, 50, 98, 57, 101, 97, 99, 98, 53, 97, 56, 99>>
       /\ (idq.source = ClaudeCode /\ idq.oid = LongKey) =>
            idq.out[1] = <<51, 49, 52, 100, 52, 52, 48, 99, 100, 98, 98, 56, 53, 56, 49, 54>>
       /\ idq.source = Claude => idq.out[1] # gen_id(ChatGPT, idq.oid)

C5_SameKeyTwoCalls ==
  /\ idq.source = Claude /\ idq.oid = <<120>>
  /\ Len(idq.out) = 2
  /\ idq.out[2] = <<100, 98, 53, 99, 55, 50, 98, 57, 101, 97, 99, 98, 53, 97, 56, 99>>

(***************************************************************************)
(* Local sessions: one session file of Claude Code or of Codex grows by    *)
(* appended events and is parsed and merged by sync.                       *)
(***************************************************************************)
MaxEvents == 3

ClaudeCodePath == <<47, 112, 47, 115, 46, 106, 115, 111, 110, 108>>  \* "/p/s.jsonl"
CodexPath == <<47, 113, 47, 114, 46, 106, 115, 111, 110, 108>>       \* "/q/r.jsonl"

WriteInput ==
  [present |-> TRUE, file_path |-> <<47, 97>>, content |-> <<99>>, new_string |-> Missing]
WriteBlock == Block("tool_use", Missing, Missing, <<87, 114, 105, 116, 101>>, WriteInput)
\* A Write whose file_path is "" and a Read of /a.
EmptyPathBlock ==
  Block("tool_use", Missing, Missing, <<87, 114, 105, 116, 101>>,
        [WriteInput EXCEPT !.file_path = <<>>])
ReadBlock ==
  Block("tool_use", Missing, Missing, <<82, 101, 97, 100>>,
        [WriteInput EXCEPT !.content = Missing])

\* user "hi"; assistant "ok" with a Write and a Read; assistant with only two
\* Writes, the second with an empty file_path; a system event; a user
\* message that has a text key and no content key; an assistant message
\* whose tool_use block has no name.
ClaudeCodeEvents ==
  {ClaudeCodeEvent("user", TRUE, StrContent(<<104, 105>>), Missing, <<49>>, Missing),
   ClaudeCodeEvent("assistant", TRUE,
                   ListContent(<<Block("text", <<111, 107>>, Missing, Missing, NoInput),
                                 WriteBlock, ReadBlock>>), Missing, <<50>>, Missing),
   ClaudeCodeEvent("assistant", TRUE, ListContent(<<WriteBlock, EmptyPathBlock>>), Missing,
                   <<51>>, Missing),
   ClaudeCodeEvent("system", FALSE, MissingContent, Missing, Missing, <<47, 119>>),
   ClaudeCodeEvent("user", TRUE, MissingContent, <<116>>, <<52>>, Missing),
   ClaudeCodeEvent("assistant", TRUE,
                   ListContent(<<Block("tool_use", Missing, Missing, Missing, NoInput)>>),
                   Missing, <<53>>, Missing)}

InputText(text) == Block("input_text", text, Missing, Missing, NoInput)

\* user "hi"; user "  "; developer "sys"; a shell call of
\* ["bash", "-lc", "echo x > /a"]; a call output; a call of "ls" that has no
\* name; a session_meta event.
CodexEvents ==
  {CodexEvent("response_item", TRUE,
              Payload("message", "user", <<InputText(<<104, 105>>)>>, Missing, NoArgs, Missing),
              <<49>>),
   CodexEvent("response_item", TRUE,
              Payload("message", "user", <<InputText(<<32, 32>>)>>, Missing, NoArgs, Missing),
              <<50>>),
   CodexEvent("response_item", TRUE,
              Payload("message", "developer", <<InputText(<<115, 121, 115>>)>>, Missing,
                      NoArgs, Missing),
              <<51>>),
   CodexEvent("response_item", TRUE,
              Payload("function_call", "missing", <<>>, Shell,
                      Args(ListContent(<<<<98, 97, 115, 104>>, <<45, 108, 99>>,
                                         <<101, 99, 104, 111, 32, 120, 32, 62, 32, 47, 97>>>>)),
                      Missing),
              <<52>>),
   CodexEvent("response_item", TRUE,
              Payload("function_call_output", "missing", <<>>, Missing, NoArgs, Missing),
              <<53>>),
   CodexEvent("response_item", TRUE,
              Payload("function_call", "missing", <<>>, Missing,
                      Args(StrContent(<<108, 115>>)), Missing),
              <<54>>),
   CodexEvent("session_meta", TRUE,
              Payload("meta", "missing", <<>>, Missing, NoArgs, <<47, 119>>), Missing)}

\* The keys gen_id is called with for a log of at most MaxEvents events
\* whose messages hold at most MaxBlocks blocks.
SessionKeys ==
  LET cc == gen_id(ClaudeCode, ClaudeCodePath)
      cx == gen_id(Codex, CodexPath)
      I == 0..(MaxEvents - 1)
      J == 0..(MaxBlocks - 1)
  IN {<<ClaudeCode, ClaudeCodePath>>, <<Codex, CodexPath>>}
       \cup {<<ClaudeCode, Key2(cc, i)>> : i \in I}
       \cup {<<ClaudeCode, ToolPrefix \o Key3(cc, i, j)>> : i \in I, j \in J}
       \cup {<<ClaudeCode, EditPrefix \o Key3(cc, i, j)>> : i \in I, j \in J}
       \cup {<<Codex, Key2(cx, i)>> : i \in I}
       \cup {<<Codex, ToolPrefix \o Key2(cx, i)>> : i \in I}
       \cup {<<Codex, ToolOutPrefix \o Key2(cx, i)>> : i \in I}
       \cup {<<Codex, EditPrefix \o Key3(cx, i, j)>> : i \in I, j \in {0, 1}}

InitSession ==
  /\ session \in {[source |-> ClaudeCode, jsonl |-> ClaudeCodePath, events |-> <<>>],
                  [source |-> Codex, jsonl |-> CodexPath, events |-> <<>>]}
  /\ ids = [k \in SessionKeys |-> gen_id(k[1], k[2])]
  /\ NoSync
  /\ db = init_schema
  /\ obs = NoCall
  /\ content = AbsentContent
  /\ extracted = Pending
  /\ idq = NoQuery

AppendClaudeCode ==
  /\ session.source = ClaudeCode
  /\ Len(session.events) < MaxEvents
  /\ \E e \in ClaudeCodeEvents : session' = [session EXCEPT !.events = Append(@, e)]
  /\ UNCHANGED <<db, obs, content, extracted, idq, ids>>
  /\ UNCHANGED syncvars

AppendCodex ==
  /\ session.source = Codex
  /\ Len(session.events) < MaxEvents
  /\ \E e \in CodexEvents : session' = [session EXCEPT !.events = Append(@, e)]
  /\ UNCHANGED <<db, obs, content, extracted, idq, ids>>
  /\ UNCHANGED syncvars

\* do_sync runs the job of a source and merges its result; a job that
\* raises is reported and skipped.
SyncClaudeCode ==
  /\ session.source = ClaudeCode
  /\ IF parse_claude_code_session(session.jsonl, session.events).raised
     THEN Failed(session.events)
     ELSE Upsert(parse_claude_code(session.jsonl, session.events), session.events)
  /\ UNCHANGED <<content, extracted, idq, session, ids>>
  /\ UNCHANGED syncvars

SyncCodex ==
  /\ session.source = Codex
  /\ IF parse_codex_session(session.jsonl, session.events).raised
     THEN Failed(session.events)
     ELSE Upsert(parse_codex(session.jsonl, session.events), session.events)
  /\ UNCHANGED <<content, extracted, idq, session, ids>>
  /\ UNCHANGED syncvars

NextSession == AppendClaudeCode \/ AppendCodex \/ SyncClaudeCode \/ SyncCodex

SpecSession == InitSession /\ [][NextSession]_vars

\* C6: once a normalizer's ParseResult is merged, every message's
\* conversation_id is the id of a stored conversation and every tool call's,
\* attachment's and file edit's message_id is the id of a stored message.
C6_ReferentialIntegrity ==
  /\ \A m \in DOMAIN db.messages : m.conversation_id \in TableIds(db.conversations)
  /\ \A t \in DOMAIN db.tool_calls : t.message_id \in TableIds(db.messages)
  /\ \A a \in DOMAIN db.attachments : a.message_id \in TableIds(db.messages)
  /\ \A e \in DOMAIN db.file_edits : e.message_id \in TableIds(db.messages)

\* The stored rows after a merged log, against the log merged before it.
C7_MergedLog ==
  Merged =>
    LET r == obs.last
        earlier == IF session.source = ClaudeCode
                   THEN parse_claude_code(session.jsonl, obs.before)
                   ELSE parse_codex(session.jsonl, obs.before)
    IN /\ \A i \in 1..Len(earlier.msgs) :
            \E j \in 1..Len(r.msgs) :
              /\ r.msgs[j].id = earlier.msgs[i].id
              /\ r.msgs[j].role = earlier.msgs[i].role
              /\ r.msgs[j].content = earlier.msgs[i].content
       /\ db.messages = SetToBag({r.msgs[j] : j \in 1..Len(r.msgs)})
       /\ \A p \in TablePairs :
            \A x, y \in DOMAIN db[p[1]] : db[p[1]][x] = 1 /\ (x.id = y.id => x = y)
       /\ BagCardinality(db.conversations) = (IF r.msgs # <<>> THEN 1 ELSE 0)

C8_EmptySessionFilter ==
  LET YieldsText(e) ==
        IF session.source = ClaudeCode
        THEN /\ e.has_message
             /\ extract_content(
                  OrDefault(e.content,
                            IF e.text = Missing THEN StrContent(<<>>)
                            ELSE StrContent(e.text))).text # <<>>
        ELSE /\ e.type = "response_item" /\ e.has_payload
             /\ e.payload.type = "message"
             /\ Strip(extract_msg_text(e.payload)) # <<>>
  IN (Merged /\ \A k \in 1..Len(obs.log) : ~YieldsText(obs.log[k])) =>
       obs.last = ParseResult(<<>>, <<>>, <<>>, <<>>, <<>>, <<>>)

\* The file edits a Claude Code log yields, one per tool_use block named
\* Write, Edit or MultiEdit that qualifies, in the order of the events and
\* of the blocks: message id, file path and edit kind.
C11_Projected(log, Qualifies(_)) ==
  LET mevents == SelectSeq(log, HasMessage)
      cid == IdOf(ClaudeCode, ClaudeCodePath)
      Named(b) ==
        /\ b.kind = "dict" /\ b.type = "tool_use"
        /\ b.name \in {<<87, 114, 105, 116, 101>>, <<69, 100, 105, 116>>,
                       <<77, 117, 108, 116, 105, 69, 100, 105, 116>>}
        /\ Qualifies(b)
      Kind(b) ==
        IF b.name = <<87, 114, 105, 116, 101>> THEN <<119, 114, 105, 116, 101>>
        ELSE IF b.name = <<69, 100, 105, 116>> THEN <<101, 100, 105, 116>>
        ELSE <<109, 117, 108, 116, 105, 101, 100, 105, 116>>
      OfEvent(k) ==
        LET Project(b) == <<IdOf(ClaudeCode, Key2(cid, k - 1)), b.input.file_path, Kind(b)>>
        IN MapSeq(SelectSeq(mevents[k].content.items, Named), Project)
  IN Flatten(MapSeq(Indices(mevents), OfEvent))

C11_Edits(r) ==
  [k \in 1..Len(r.edits) |->
     <<r.edits[k].message_id, r.edits[k].file_path, r.edits[k].edit_type>>]

C11_NonEmptyPath(b) == b.input.file_path \notin {Missing, <<>>}
C11_HasPath(b) == b.input.file_path # Missing

MaxMtime == 2
MaxStamp == 2

Browsers == <<"safari", "chrome">>
NoBrowser == "none"
WebNames == {ChatGPT, Claude}
LocalNames == {ClaudeCode, Codex}

\* The *.jsonl files under ~/.claude/projects, under ~/.codex and under the
\* directory that CONVOS_IMPORT_PATHS names.
ClaudeCodeFiles == {"~/.claude/projects/p/a.jsonl", "~/.claude/projects/p/b.jsonl"}
CodexFiles == {"~/.codex/sessions/r.jsonl"}
ImportPath == <<126, 47, 120>>  \* "~/x"
ImportFiles == {"~/x/c.jsonl"}
ImportName == <<105, 109, 112, 111, 114, 116, 58>> \o ImportPath  \* f"import:{path}"

\* path.rglob("*.jsonl"): the files that exist, an mtime of 0 standing for
\* a file that does not.
Rglob(files, mtimes) == {p \in files \cap DOMAIN mtimes : mtimes[p] > 0}

\* ts_from_iso on the one-digit stamps of the model.
ts_from_iso(t) == IF Truthy(t) THEN <<t[1] - 48>> ELSE None

\* The state dict after load_state and the three setdefault calls; a key
\* that is absent reads as the default its .get names.
NoPref == [browser |-> NoBrowser, head |-> None, last_updated |-> None]
Pref(browser, head, lu) == [browser |-> browser, head |-> head, last_updated |-> lu]
EmptyState ==
  [local |-> [n \in LocalNames |->
                [files |-> [p \in (IF n = ClaudeCode THEN ClaudeCodeFiles ELSE CodexFiles) |-> 0]]],
   web |-> [n \in WebNames |-> NoPref],
   imports |-> [p \in {ImportPath} |-> [mtime |-> 0]]]

\* set_state: state[section][key] = val, and whether that sets dirty.
set_state(st, section, key, val) == [st EXCEPT ![section][key] = val]
Differs(st, section, key, val) == st[section][key] # val

NoJob ==
  [planned |-> FALSE, name |-> <<>>, files |-> {}, browser |-> NoBrowser, since |-> None,
   section |-> "none", key |-> <<>>, val |-> <<>>]
Job(name, files, browser, since, section, key, val) ==
  [planned |-> TRUE, name |-> name, files |-> files, browser |-> browser, since |-> since,
   section |-> section, key |-> key, val |-> val]

\* A variant of the planner's comparison that takes an equal mtime as new.
NewerOrEqual(mtime, watermark) == mtime >= watermark
Newer(mtime, watermark) == mtime > watermark

plan_local(name, mtimes, local) ==
  LET matched == IF name = ClaudeCode THEN ClaudeCodeFiles ELSE CodexFiles
      files == Rglob(matched, mtimes)
      prev == local[name].files
      mt == [p \in matched |-> IF p \in files THEN mtimes[p] ELSE 0]
      chg == {p \in files : Newer(mt[p], prev[p])}
  IN IF chg = {} THEN NoJob
     ELSE Job(name, chg, NoBrowser, None, "local", name, [files |-> mt])

latest_mtime(files, mtimes) == Max({mtimes[p] : p \in Rglob(files, mtimes)} \cup {0})

plan_import(path, mtimes, imports) ==
  LET mtime == latest_mtime(ImportFiles, mtimes)
  IN IF ~Newer(mtime, imports[path].mtime) THEN NoJob
     ELSE Job(ImportName, Rglob(ImportFiles, mtimes), NoBrowser, None, "imports", path,
              [mtime |-> mtime])

\* What a probe gives for one profile: an exception, or the fingerprint of
\* the first listed conversation, f"{id}:{timestamp}"; for an empty listing
\* probe_chatgpt gives "" and probe_claude gives None.
ProbeFailed == <<-3>>
Colon == 58
Stamps == {<<48 + t>> : t \in 1..MaxStamp}
Heads(name) ==
  IF name = ChatGPT THEN {<<>>} \cup {<<99, Colon>> \o t : t \in Stamps}
  ELSE {None} \cup {<<117, Colon>> \o t : t \in Stamps}

HasColon(head) == \E k \in 1..Len(head) : head[k] = Colon
\* head.split(":", 1)[1]
AfterColon(head) ==
  SubSeq(head, Min({k \in 1..Len(head) : head[k] = Colon}) + 1, Len(head))

\* A variant that probes safari and chrome in that order whatever the
\* stored profile.
ProbeOrderFixed(pref) == Browsers
\* order = [pref.get("browser")] + [b for b in ("safari", "chrome") if b != ...],
\* without the entries that are None.
ProbeOrder(pref) ==
  LET IsOther(b) == b # pref.browser
  IN (IF pref.browser = NoBrowser THEN <<>> ELSE <<pref.browser>>)
       \o SelectSeq(Browsers, IsOther)

\* plan_web from the profile order[1] on: the job, the state it writes
\* itself, the profiles probed and the errors it reports.
RECURSIVE plan_web_from(_, _, _, _, _)
plan_web_from(name, pref, probe, order, errors) ==
  IF order = <<>>
  THEN [job |-> NoJob, writes |-> FALSE, val |-> pref, probed |-> errors, errors |-> errors,
        head |-> ProbeFailed]
  ELSE
    LET b == Head(order)
        head == probe[b]
        lu == IF name = Claude /\ Truthy(head) /\ HasColon(head) THEN AfterColon(head)
              ELSE None
        last == pref.last_updated
        since == IF name = Claude /\ Truthy(last) THEN ts_from_iso(last) ELSE None
        st == Pref(b, head, IF Truthy(lu) THEN lu ELSE None)
    IN IF head = ProbeFailed
       THEN plan_web_from(name, pref, probe, Tail(order), Append(errors, b))
       ELSE IF head # None /\ head = pref.head
       THEN [job |-> NoJob, writes |-> TRUE, val |-> st, probed |-> Append(errors, b),
             errors |-> <<>>, head |-> head]
       ELSE [job |-> Job(name, {}, b, since, "web", name, st), writes |-> FALSE,
             val |-> pref, probed |-> Append(errors, b), errors |-> <<>>, head |-> head]

plan_web(name, pref, probe) == plan_web_from(name, pref, probe, ProbeOrder(pref), <<>>)

\* The conversation that an export file and the account both hold: the
\* export was written before the conversation was renamed and continued.
SharedId == <<107>>                                   \* "k"
SharedMessages == <<<<109, 49>>, <<109, 50>>>>        \* "m1", "m2"
SharedRows(job) ==
  LET fresh == job.section = "web"
      Row(k) == MsgRow(SharedMessages[k], SharedId, "user", <<97>>, None, None)
  IN ParseResult(<<ConvRow(SharedId, ChatGPT, IF fresh THEN <<78>> ELSE <<79>>, None, None,
                           None)>>,
                 IF fresh THEN <<Row(1), Row(2)>> ELSE <<Row(1)>>, <<>>, <<>>, <<>>, <<>>)

\* What a job's func returns when it does not raise: the rows of its
\* source, none when the files of the source hold no session.
Result(job) ==
  IF job.name \in fs.blank THEN ParseResult(<<>>, <<>>, <<>>, <<>>, <<>>, <<>>)
  ELSE IF job.name \in fs.shared THEN SharedRows(job)
  ELSE ParseResult(<<ConvRow(job.name, job.name, <<>>, None, None, None)>>, <<>>, <<>>, <<>>,
                   <<>>, <<>>)

\* The cycle: where do_sync is, the jobs it planned and how far each one
\* is, the futures as_completed has still to yield (in completion order),
\* the job the calling thread is merging, the lines echoed, the dirty and
\* changed flags, what plan_web found, what each profile's probe answered,
\* the state dict as the cycle began and, for each file-backed source, the
\* modification times of its files in the last cycle that merged its job,
\* and the totals of new and updated conversations do_sync returns.
FileBacked == LocalNames \cup {ImportName}
Matched(name) ==
  IF name = ClaudeCode THEN ClaudeCodeFiles
  ELSE IF name = Codex THEN CodexFiles ELSE ImportFiles
NeverSynced == [n \in FileBacked |-> [ok |-> FALSE, at |-> [p \in Matched(n) |-> 0]]]
NoPlan ==
  [job |-> NoJob, writes |-> FALSE, val |-> NoPref, probed |-> <<>>, errors |-> <<>>,
   head |-> ProbeFailed]
IdleCycle ==
  [pc |-> "idle", jobs |-> <<>>, status |-> <<>>, done |-> <<>>, at |-> 0, echo |-> <<>>,
   dirty |-> FALSE, changed |-> FALSE, plans |-> [n \in WebNames |-> NoPlan],
   probes |-> [n \in WebNames |-> [b \in {"safari", "chrome"} |-> ProbeFailed]],
   before |-> EmptyState, synced |-> NeverSynced, newc |-> 0, updc |-> 0]

NoStore ==
  /\ db = init_schema
  /\ obs = NoCall
  /\ content = AbsentContent
  /\ extracted = Pending
  /\ idq = NoQuery
  /\ session = NoLog
  /\ ids = NoIds

\* The outcomes a probe of a source can have: a profile without cookies
\* for the source fails.
Probes(name) ==
  {pr \in [{"safari", "chrome"} -> Heads(name) \cup {ProbeFailed}] :
     \A b \in {"safari", "chrome"} : <<name, b>> \notin fs.cookies => pr[b] = ProbeFailed}

IsPlanned(j) == j.planned
Without(s, i) == LET Other(x) == x # i IN SelectSeq(s, Other)

\* A file is written: its mtime grows.
Touch ==
  /\ cycle.pc = "idle"
  /\ \E p \in DOMAIN fs.mtime :
       \E m \in (fs.mtime[p] + 1)..MaxMtime : fs' = [fs EXCEPT !.mtime[p] = m]
  /\ UNCHANGED <<db, obs, content, extracted, idq, session, ids, state, disk, cycle, run>>

\* do_sync up to the submission of the jobs: plan_import, plan_local for
\* Claude Code and Codex, plan_web for ChatGPT and Claude, in that order.
Plan ==
  /\ cycle.pc = "idle"
  /\ \E p1 \in Probes(ChatGPT), p2 \in Probes(Claude) :
       LET imp == IF ImportFiles \cap DOMAIN fs.mtime = {} THEN NoJob
                  ELSE plan_import(ImportPath, fs.mtime, state.imports)
           cc == plan_local(ClaudeCode, fs.mtime, state.local)
           cx == plan_local(Codex, fs.mtime, state.local)
           w1 == plan_web(ChatGPT, state.web[ChatGPT], p1)
           w2 == plan_web(Claude, state.web[Claude], p2)
           s1 == IF w1.writes THEN set_state(state, "web", ChatGPT, w1.val) ELSE state
           s2 == IF w2.writes THEN set_state(s1, "web", Claude, w2.val) ELSE s1
           jobs == SelectSeq(<<imp, cc, cx, w1.job, w2.job>>, IsPlanned)
           Line(n, w) == IF w.errors = <<>> THEN <<>>
                         ELSE <<[kind |-> "sync failed", name |-> n, errors |-> w.errors]>>
       IN /\ state' = s2
          /\ cycle' = [pc |-> "running", jobs |-> jobs,
                       status |-> [i \in 1..Len(jobs) |-> "running"], done |-> <<>>,
                       at |-> 0, echo |-> Line(ChatGPT, w1) \o Line(Claude, w2),
                       dirty |-> s2 # state, changed |-> FALSE,
                       plans |-> [n \in WebNames |-> IF n = ChatGPT THEN w1 ELSE w2],
                       probes |-> [n \in WebNames |-> IF n = ChatGPT THEN p1 ELSE p2],
                       before |-> state, synced |-> cycle.synced, newc |-> 0, updc |-> 0]
  /\ UNCHANGED <<db, obs, content, extracted, idq, session, ids, fs, disk, run>>

\* A worker thread ends a job's func: it returns a result or raises.
Finish ==
  /\ cycle.pc = "running"
  /\ \E i \in 1..Len(cycle.jobs) :
       /\ cycle.status[i] = "running"
       /\ \E outcome \in {"returned", "raised"} :
            cycle' = [cycle EXCEPT !.status[i] = outcome, !.done = Append(@, i)]
  /\ UNCHANGED <<db, obs, content, extracted, idq, session, ids, fs, state, disk, run>>

\* A variant in which every completed job is handled where it completes,
\* whatever the calling thread is doing.
MayHandleWhereCompleted(c, i) == \E k \in 1..Len(c.done) : c.done[k] = i
\* for fut in as_completed(futs): the calling thread takes the next
\* completed future when it has dealt with the one before.
MayHandle(c, i) == c.at = 0 /\ c.done # <<>> /\ Head(c.done) = i

\* A variant that records the watermark of a job that raised.
on_failure_sets_state(st, job) == set_state(st, job.section, job.key, job.val)
\* except Exception as e: typer.echo(...); continue
on_failure(st, job) == st

Report ==
  /\ cycle.pc = "running"
  /\ \E i \in 1..Len(cycle.jobs) :
       /\ MayHandle(cycle, i)
       /\ cycle.status[i] = "raised"
       /\ state' = on_failure(state, cycle.jobs[i])
       /\ cycle' = [cycle EXCEPT !.status[i] = "failed", !.done = Without(@, i),
                                 !.echo = Append(@, [kind |-> "failed",
                                                     name |-> cycle.jobs[i].name,
                                                     errors |-> <<>>])]
  /\ UNCHANGED <<db, obs, content, extracted, idq, session, ids, fs, disk, run>>

\* upsert(conn, r) is entered for a job that returned.
BeginMerge ==
  /\ cycle.pc = "running"
  /\ \E i \in 1..Len(cycle.jobs) :
       /\ MayHandle(cycle, i)
       /\ cycle.status[i] = "returned"
       /\ cycle' = [cycle EXCEPT !.status[i] = "merging", !.done = Without(@, i), !.at = i]
  /\ UNCHANGED <<db, obs, content, extracted, idq, session, ids, fs, state, disk, run>>

\* upsert returns: the rows are stored and the totals are added up.
CommitMerge ==
  /\ cycle.pc = "running"
  /\ \E i \in 1..Len(cycle.jobs) :
       /\ cycle.status[i] = "merging"
       /\ db' = upsert(db, Result(cycle.jobs[i])).db
       /\ cycle' = [cycle EXCEPT !.status[i] = "merged",
                                 !.changed = @ \/ Result(cycle.jobs[i]).convs # <<>>,
                                 !.newc = @ + upsert(db, Result(cycle.jobs[i])).ret[6],
                                 !.updc = @ + upsert(db, Result(cycle.jobs[i])).ret[7]]
  /\ UNCHANGED <<obs, content, extracted, idq, session, ids, fs, state, disk, run>>

\* if st := j.get("state"): set_state(*st)
SetState ==
  /\ cycle.pc = "running"
  /\ \E i \in 1..Len(cycle.jobs) :
       LET j == cycle.jobs[i]
       IN /\ cycle.status[i] = "merged"
          /\ state' = set_state(state, j.section, j.key, j.val)
          /\ cycle' = [cycle EXCEPT !.status[i] = "done", !.at = 0,
                                    !.dirty = @ \/ Differs(state, j.section, j.key, j.val)]
  /\ UNCHANGED <<db, obs, content, extracted, idq, session, ids, fs, disk, run>>

\* A variant in which the first failure ends the loop over the futures.
LoopDoneAtFailure(c) ==
  \/ \A i \in 1..Len(c.jobs) : c.status[i] \in {"done", "failed"}
  \/ \E i \in 1..Len(c.jobs) : c.status[i] = "failed"
\* as_completed has yielded every future and each one was dealt with.
LoopDone(c) == \A i \in 1..Len(c.jobs) : c.status[i] \in {"done", "failed"}

\* The end of do_sync: if dirty: save_state(state).
EndCycle ==
  /\ cycle.pc = "running"
  /\ LoopDone(cycle)
  /\ disk' = IF cycle.dirty THEN state ELSE disk
  /\ cycle' = [cycle EXCEPT !.pc = "idle",
                            !.synced = [n \in FileBacked |->
                              IF \E i \in 1..Len(cycle.jobs) :
                                   cycle.jobs[i].name = n /\ cycle.status[i] = "done"
                              THEN [ok |-> TRUE,
                                    at |-> [p \in Matched(n) |->
                                             IF p \in DOMAIN fs.mtime THEN fs.mtime[p] ELSE 0]]
                              ELSE @[n]]]
  /\ UNCHANGED <<db, obs, content, extracted, idq, session, ids, fs, state, run>>

Executor == Finish \/ Report \/ BeginMerge \/ CommitMerge \/ SetState \/ EndCycle

\* Session logs of Claude Code and an import directory, no browser cookies.
InitPlan ==
  /\ NoStore
  /\ fs = [mtime |-> [p \in ClaudeCodeFiles \cup ImportFiles |-> 0], cookies |-> {},
           blank |-> {}, shared |-> {}]
  /\ state = EmptyState /\ disk = EmptyState
  /\ cycle = IdleCycle
  /\ run = <<>>

NextPlan == Touch \/ Plan \/ Finish \/ Report \/ BeginMerge \/ CommitMerge \/ SetState \/ EndCycle

SpecPlan == InitPlan /\ [][NextPlan]_vars

\* No local files; the cookies of one of the two services, in both browsers.
InitWeb ==
  /\ NoStore
  /\ \E n \in WebNames :
       fs = [mtime |-> [p \in {} |-> 0], cookies |-> {<<n, "safari">>, <<n, "chrome">>},
            blank |-> {}, shared |-> {}]
  /\ state = EmptyState /\ disk = EmptyState
  /\ cycle = IdleCycle
  /\ run = <<>>

NextWeb == Plan \/ Finish \/ Report \/ BeginMerge \/ CommitMerge \/ SetState \/ EndCycle

SpecWeb == InitWeb /\ [][NextWeb]_vars

\* A Codex session log written before the first cycle and not again, and
\* the cookies of both services in safari.
InitSync ==
  /\ NoStore
  /\ fs = [mtime |-> [p \in CodexFiles |-> 1],
           cookies |-> {<<ChatGPT, "safari">>, <<Claude, "safari">>}, blank |-> {}, shared |-> {}]
  /\ state = EmptyState /\ disk = EmptyState
  /\ cycle = IdleCycle
  /\ run = <<>>

NextSync == Plan \/ Finish \/ Report \/ BeginMerge \/ CommitMerge \/ SetState \/ EndCycle

SpecSync == InitSync /\ [][NextSync]_vars

\* The jobs of the cycle that carry a name, and whether there is one.
JobsNamed(name) == {i \in 1..Len(cycle.jobs) : cycle.jobs[i].name = name}

\* C12: plan_local and plan_import schedule a job if and only if some
\* matched file's modification time is strictly greater than its stored
\* watermark (a missing watermark counts as 0), and the job of a
\* session-log source parses exactly the files whose modification time
\* exceeds their own watermark.
C12_PlannerGating ==
  cycle.pc = "running" =>
    /\ \A n \in LocalNames :
         LET matched == (IF n = ClaudeCode THEN ClaudeCodeFiles ELSE CodexFiles)
                          \cap DOMAIN fs.mtime
             newer == {p \in matched : fs.mtime[p] > cycle.before.local[n].files[p]}
         IN /\ (JobsNamed(n) # {}) <=> (newer # {})
            /\ Cardinality(JobsNamed(n)) <= 1
            /\ \A i \in JobsNamed(n) : cycle.jobs[i].files = newer
    /\ LET prev == cycle.before.imports[ImportPath].mtime
       IN /\ (JobsNamed(ImportName) # {})
               <=> (\E p \in ImportFiles \cap DOMAIN fs.mtime : fs.mtime[p] > prev)
          /\ Cardinality(JobsNamed(ImportName)) <= 1

C12_OneOfTwoFilesNewer ==
  /\ cycle.pc = "running"
  /\ \E i \in JobsNamed(ClaudeCode) :
       /\ Cardinality(cycle.jobs[i].files) = 1
       /\ \A p \in ClaudeCodeFiles : fs.mtime[p] > 0
       /\ \E p \in ClaudeCodeFiles : cycle.before.local[ClaudeCode].files[p] = fs.mtime[p]
  /\ JobsNamed(ImportName) = {}
  /\ \E p \in ImportFiles : fs.mtime[p] > 0

\* The watermark a job's state entry holds: the file mtimes of a local
\* source, the mtime of an import, the fingerprint and last_updated of an
\* API source.
Watermark(st, section, key) ==
  IF section = "local" THEN st.local[key].files
  ELSE IF section = "imports" THEN <<st.imports[key].mtime>>
  ELSE <<st.web[key].head, st.web[key].last_updated>>

WatermarkKeys ==
  {<<"local", n>> : n \in LocalNames} \cup {<<"web", n>> : n \in WebNames}
    \cup {<<"imports", ImportPath>>}

\* While a job that raised is the last word on its source, the source's
\* watermark in memory and on disk is the one the cycle began with.
C13_FailedKeepsWatermark ==
  \A i \in 1..Len(cycle.jobs) :
    cycle.status[i] = "failed" =>
      LET j == cycle.jobs[i]
      IN /\ Watermark(state, j.section, j.key) = Watermark(cycle.before, j.section, j.key)
         /\ Watermark(disk, j.section, j.key) = Watermark(cycle.before, j.section, j.key)

\* A step of the cycle, as far as the watermarks go.
C13_Step ==
  /\ \A k \in WatermarkKeys :
     Watermark(state', k[1], k[2]) # Watermark(state, k[1], k[2]) =>
       \E i \in 1..Len(cycle.jobs) :
         /\ cycle.jobs[i].section = k[1] /\ cycle.jobs[i].key = k[2]
         /\ cycle.status[i] = "merged" /\ cycle'.status[i] = "done"
         /\ cycle.jobs[i].name \in TableIds(db.conversations)
         /\ Watermark(state', k[1], k[2])
              = Watermark(set_state(state, k[1], k[2], cycle.jobs[i].val), k[1], k[2])
  /\ \A k \in WatermarkKeys :
       Watermark(disk', k[1], k[2]) # Watermark(disk, k[1], k[2]) =>
         /\ cycle.pc = "running" /\ cycle'.pc = "idle"
         /\ \E i \in 1..Len(cycle.jobs) :
              /\ cycle.jobs[i].section = k[1] /\ cycle.jobs[i].key = k[2]
              /\ cycle.status[i] = "done"
  /\ (cycle.pc = "idle" /\ cycle'.pc = "running") =>
       \A i \in 1..Len(cycle.jobs) :
         LET j == cycle.jobs[i]
             again == j.section = "web" => cycle'.plans[j.key].head = j.val.head
         IN (cycle.status[i] = "failed" /\ again) =>
              \E n \in 1..Len(cycle'.jobs) : cycle'.jobs[n].name = j.name

\* C13: a source's watermark is advanced only by the step that follows the
\* merge of that source's job, which returned without error and whose rows
\* are stored; a job that raises leaves the watermark in memory and on disk
\* as it was, and the next cycle plans the job again (for an API source,
\* when the probe shows the same fingerprint again).
C13_WatermarkOnlyAfterSuccess ==
  /\ [](C13_FailedKeepsWatermark)
  /\ [][C13_Step]_vars

C13_OneFailedOneRecorded ==
  /\ cycle.pc = "idle"
  /\ \E i, n \in 1..Len(cycle.jobs) :
       /\ cycle.status[i] = "failed" /\ cycle.jobs[i].section = "web"
       /\ cycle.status[n] = "done" /\ cycle.jobs[n].section = "local"
       /\ Watermark(disk, "local", cycle.jobs[n].key)
            # Watermark(cycle.before, "local", cycle.jobs[n].key)

\* C14: when a job of a cycle raises, every other job still runs to
\* completion; at the end of the cycle each job that returned is merged and
\* its watermark is on disk, and the failure is reported once, against the
\* failing job only.
C14_FailureIsolation ==
  cycle.pc = "idle" =>
    \A i \in 1..Len(cycle.jobs) :
      LET j == cycle.jobs[i]
          reports == {k \in 1..Len(cycle.echo) :
                        cycle.echo[k].kind = "failed" /\ cycle.echo[k].name = j.name}
      IN /\ cycle.status[i] \in {"done", "failed"}
         /\ cycle.status[i] = "done" =>
              /\ j.name \in TableIds(db.conversations)
              /\ disk[j.section][j.key] = j.val
              /\ reports = {}
         /\ cycle.status[i] = "failed" => Cardinality(reports) = 1

C14_TwoMergedOneFailed ==
  /\ cycle.pc = "idle"
  /\ Len(cycle.jobs) = 3
  /\ \E i \in 1..3 :
       /\ cycle.status[i] = "failed"
       /\ \A n \in (1..3) \ {i} : cycle.status[n] = "done"
  /\ Cardinality(TableIds(db.conversations)) >= 2

\* C18: at most one upsert is in progress at any time: a job is being
\* merged, or is merged and waits for its watermark, only while it is the
\* one job the calling thread is dealing with, whatever the worker threads
\* are doing.
C18_SingleWriter ==
  /\ \A i \in 1..Len(cycle.jobs) : cycle.status[i] \in {"merging", "merged"} => cycle.at = i
  /\ Cardinality({i \in 1..Len(cycle.jobs) : cycle.status[i] = "merging"}) <= 1
  /\ cycle.at # 0 => cycle.status[cycle.at] \in {"merging", "merged"}

C18_MergeWhileOthersRun ==
  \E i, n, m \in 1..Len(cycle.jobs) :
    /\ cycle.status[i] = "merging"
    /\ cycle.status[n] = "running"
    /\ cycle.status[m] = "returned"

\* The state plan_web leaves: every job of the cycle is still running.
JustPlanned ==
  /\ cycle.pc = "running"
  /\ \A i \in 1..Len(cycle.jobs) : cycle.status[i] = "running"

\* The profile whose probe answered.
Answered(n) == cycle.plans[n].probed[Len(cycle.plans[n].probed)]

\* C15: for each API source whose probe answered, an empty listing
\* included: when the probed fingerprint equals the stored one, plan_web
\* plans no job and writes only the source's profile and fingerprint
\* record; when it differs, exactly one full-fetch job is planned.
C15_ProbeGating ==
  JustPlanned =>
    \A n \in WebNames :
      LET w == cycle.plans[n]
          pref == cycle.before.web[n]
      IN w.head # ProbeFailed =>
           IF pref.browser # NoBrowser /\ w.head = pref.head
           THEN /\ JobsNamed(n) = {}
                /\ state.web[n].browser = Answered(n)
                /\ state.web[n].head = w.head
                /\ state.local = cycle.before.local
                /\ state.imports = cycle.before.imports
           ELSE Cardinality(JobsNamed(n)) = 1

\* The listing of Claude was empty when the stored fingerprint was taken
\* and is empty again, and a job is planned all the same.
C15_EmptyListingFetchedAgain ==
  /\ JustPlanned
  /\ cycle.before.web[Claude].browser # NoBrowser
  /\ cycle.before.web[Claude].head = None
  /\ cycle.plans[Claude].head = None
  /\ JobsNamed(Claude) # {}

\* The same gating for every probe answer but the empty listing of Claude,
\* whose fingerprint is None.
C15_GatingOfNonEmptyListings ==
  JustPlanned =>
    \A n \in WebNames :
      LET w == cycle.plans[n]
          pref == cycle.before.web[n]
      IN (w.head # ProbeFailed /\ w.head # None) =>
           IF pref.browser # NoBrowser /\ w.head = pref.head
           THEN /\ JobsNamed(n) = {}
                /\ state.web[n].browser = Answered(n)
                /\ state.web[n].head = w.head
           ELSE Cardinality(JobsNamed(n)) = 1

\* C17: plan_web probes the last-successful profile first, then the
\* remaining profiles in the order safari, chrome, each at most once; the
\* first profile whose probe answers decides the outcome and no later
\* profile is probed; if every profile fails no job is planned, the stored
\* record of the source is unchanged and one line reports the failures of
\* all profiles.
C17_ProfileOrder ==
  JustPlanned =>
    \A n \in WebNames :
      LET w == cycle.plans[n]
          pref == cycle.before.web[n]
          probe == cycle.probes[n]
          order == IF pref.browser = "chrome" THEN <<"chrome", "safari">>
                   ELSE <<"safari", "chrome">>
          k == Len(w.probed)
          lines == {i \in 1..Len(cycle.echo) :
                      cycle.echo[i].kind = "sync failed" /\ cycle.echo[i].name = n}
      IN /\ k \in 1..2
         /\ w.probed = SubSeq(order, 1, k)
         /\ \A i \in 1..(k - 1) : probe[order[i]] = ProbeFailed
         /\ w.head = probe[order[k]]
         /\ k < 2 => probe[order[k]] # ProbeFailed
         /\ w.head # ProbeFailed =>
              /\ lines = {}
              /\ \/ \E i \in JobsNamed(n) : cycle.jobs[i].browser = order[k]
                 \/ JobsNamed(n) = {} /\ state.web[n].browser = order[k]
         /\ w.head = ProbeFailed =>
              /\ JobsNamed(n) = {}
              /\ state.web[n] = pref
              /\ Cardinality(lines) = 1
              /\ \A i \in lines : cycle.echo[i].errors = order

C17_StoredProfileFailsNextAnswers ==
  /\ JustPlanned
  /\ \E n \in WebNames :
       /\ cycle.before.web[n].browser = "chrome"
       /\ cycle.probes[n]["chrome"] = ProbeFailed
       /\ cycle.probes[n]["safari"] # ProbeFailed
       /\ cycle.plans[n].probed = <<"chrome", "safari">>
       /\ \E i \in JobsNamed(n) : cycle.jobs[i].browser = "safari"

(***************************************************************************)
(* fetch_chatgpt and fetch_claude: one run of an API normalizer, as the    *)
(* job plan_web planned calls it (no limit, Claude with since) or as the   *)
(* fetch command calls it (with a limit).  The account's listing is a list *)
(* of conversations, newest first; a conversation that is created while    *)
(* ChatGPT's pages are walked moves every other one down by one place.     *)
(***************************************************************************)
PageSize == 2
MaxLimit == 2
MaxInsert == 1

NativeIds == <<"a", "b", "c">>
\* The listings an account can have: each conversation with its updated_at.
Listings ==
  {[i \in 1..Len(NativeIds) |-> [id |-> NativeIds[i], updated_at |-> u[i]]] :
     u \in [1..Len(NativeIds) -> Stamps]}
\* The conversations created meanwhile, each with an id of its own.
NewIds == <<"n", "o", "p", "q">>
Created(k) == [id |-> NewIds[k], updated_at |-> <<48 + MaxStamp>>]

ItemIds(items) == [i \in 1..Len(items) |-> items[i].id]
Elems(s) == {s[i] : i \in 1..Len(s)}
\* s[:n] for n >= 0
Slice(s, n) == SubSeq(s, 1, IF n < Len(s) THEN n ELSE Len(s))

\* A variant that lets through every item of the page.
UnseenOrSeen(items, seen) == items
\* [it for it in items if it["id"] not in seen]
Unseen(items, seen) == LET New(it) == it.id \notin seen IN SelectSeq(items, New)

\* A variant that also fetches the conversations updated at the watermark.
OlderThan(since, upd) == since # None /\ upd # None /\ upd[1] < since[1]
\* since and updated and updated <= since
NotNewer(since, upd) == since # None /\ upd # None /\ upd[1] <= since[1]

\* The run as the function is entered.
StartRun(name, limit, since, server) ==
  [name |-> name, limit |-> limit, since |-> since, server |-> server, inserted |-> 0,
   pc |-> "list", offset |-> 0, fetched |-> 0, seen |-> {}, got |-> 0, page |-> <<>>,
   items |-> <<>>, idx |-> 0, listed |-> {}, asked |-> <<>>, failed |-> {}, convs |-> <<>>,
   error |-> "none"]

InitFetch ==
  /\ NoStore
  /\ \E name \in WebNames, server \in Listings, limit \in 0..MaxLimit :
       \E head \in Heads(name), answer \in Heads(name) :
         LET lu == IF name = Claude /\ Truthy(head) THEN AfterColon(head) ELSE None
             pref == Pref("safari", head, lu)
             job == plan_web(name, pref, [b \in {"safari", "chrome"} |-> answer]).job
         IN /\ Truthy(answer) /\ answer # head
            /\ limit > 0 => ~Truthy(head)
            /\ state = set_state(EmptyState, "web", name, pref)
            /\ fs = [mtime |-> [p \in {} |-> 0], cookies |-> {<<name, "safari">>}]
            /\ run = StartRun(name, limit, IF limit = 0 THEN job.since ELSE None, server)
  /\ disk = state
  /\ cycle = IdleCycle

\* A conversation is created in the account while the pages are walked.
Insert ==
  /\ run.name = ChatGPT
  /\ run.pc \in {"list", "detail"}
  /\ run.inserted < MaxInsert /\ run.inserted < Len(NewIds)
  /\ run' = [run EXCEPT !.server = <<Created(run.inserted + 1)>> \o @, !.inserted = @ + 1]
  /\ UNCHANGED <<db, obs, content, extracted, idq, session, ids, fs, state, disk, cycle>>

\* ThreadPoolExecutor(max_workers=min(4, len(page))), which raises
\* ValueError unless max_workers is greater than 0.
pool_workers(page) == IF Len(page) < 4 THEN Len(page) ELSE 4

\* fetch_chatgpt, one turn of the loop up to the thread pool: the listing
\* request at the offset, the page of unseen items cut to what the limit
\* leaves, their ids added to seen, and the pool made for the page.
ListPage ==
  /\ run.name = ChatGPT
  /\ run.pc = "list"
  /\ \E ok \in BOOLEAN :
       LET last == IF run.offset + PageSize < Len(run.server) THEN run.offset + PageSize
                   ELSE Len(run.server)
           items == SubSeq(run.server, run.offset + 1, last)
           page == Slice(Unseen(items, run.seen),
                         IF run.limit > 0 THEN run.limit - run.fetched ELSE Len(items))
       IN run' = IF ~ok THEN [run EXCEPT !.pc = "raised", !.error = "request"]
                 ELSE IF items = <<>> THEN [run EXCEPT !.pc = "returned"]
                 ELSE IF pool_workers(page) <= 0
                 THEN [run EXCEPT !.pc = "raised", !.error = "ValueError",
                                  !.got = Len(items),
                                  !.listed = @ \cup Elems(ItemIds(items))]
                 ELSE [run EXCEPT !.pc = "detail", !.got = Len(items), !.page = ItemIds(page),
                                  !.seen = @ \cup Elems(ItemIds(page)),
                                  !.listed = @ \cup Elems(ItemIds(items))]
  /\ UNCHANGED <<db, obs, content, extracted, idq, session, ids, fs, state, disk, cycle>>

\* fetch_chatgpt, the rest of the turn: parse_item on the items of the page
\* in the pool; list(ex.map(...)) raises what a parse_item raised and
\* cancels the items no thread has begun, otherwise the results are added
\* and the counters and breaks follow.
ParsePage ==
  /\ run.name = ChatGPT
  /\ run.pc = "detail"
  /\ \E begun \in SUBSET Elems(run.page) : \E bad \in SUBSET begun :
       LET fetched == run.fetched + Len(run.page)
           stop == run.page = <<>> \/ (run.limit > 0 /\ fetched >= run.limit)
           Begun(i) == i \in begun
       IN /\ bad = {} => begun = Elems(run.page)
          /\ run' = IF bad # {}
                    THEN [run EXCEPT !.pc = "raised", !.failed = bad, !.error = "request",
                                     !.asked = @ \o SelectSeq(run.page, Begun)]
                    ELSE [run EXCEPT !.pc = IF stop THEN "returned" ELSE "list",
                                     !.asked = @ \o run.page, !.convs = @ \o run.page,
                                     !.fetched = fetched, !.offset = @ + run.got,
                                     !.page = <<>>]
  /\ UNCHANGED <<db, obs, content, extracted, idq, session, ids, fs, state, disk, cycle>>

\* fetch_claude up to its loop: the one listing request, cut to the limit.
ListAll ==
  /\ run.name = Claude
  /\ run.pc = "list"
  /\ \E ok \in BOOLEAN :
       LET items == IF run.limit = 0 THEN run.server ELSE Slice(run.server, run.limit)
       IN run' = IF ~ok THEN [run EXCEPT !.pc = "raised", !.error = "request"]
                 ELSE [run EXCEPT !.pc = IF items = <<>> THEN "returned" ELSE "item",
                                  !.items = items, !.idx = 1,
                                  !.listed = Elems(ItemIds(items))]
  /\ UNCHANGED <<db, obs, content, extracted, idq, session, ids, fs, state, disk, cycle>>

\* fetch_claude, one turn of the loop: the item is passed over, or its
\* conversation row is added and its detail fetched.
ClaudeItem ==
  /\ run.name = Claude
  /\ run.pc = "item"
  /\ \E ok \in BOOLEAN :
       LET item == run.items[run.idx]
           upd == ts_from_iso(item.updated_at)
           next == IF run.idx = Len(run.items) THEN "returned" ELSE "item"
       IN run' = IF NotNewer(run.since, upd)
                 THEN [run EXCEPT !.pc = next, !.idx = @ + 1]
                 ELSE IF ~ok
                 THEN [run EXCEPT !.pc = "raised", !.asked = Append(@, item.id),
                                  !.convs = Append(@, item.id), !.failed = {item.id},
                                  !.error = "request"]
                 ELSE [run EXCEPT !.pc = next, !.idx = @ + 1, !.asked = Append(@, item.id),
                                  !.convs = Append(@, item.id), !.fetched = @ + 1]
  /\ UNCHANGED <<db, obs, content, extracted, idq, session, ids, fs, state, disk, cycle>>

NextFetch == Insert \/ ListPage \/ ParsePage \/ ListAll \/ ClaudeItem

SpecFetch == InitFetch /\ [][NextFetch]_vars

NoRepeat(s) == \A i, k \in 1..Len(s) : s[i] = s[k] => i = k
IsPrefix(s, t) == Len(s) <= Len(t) /\ s = SubSeq(t, 1, Len(s))

\* C16: the Claude job plan_web planned fetches the detail of exactly the
\* listed conversations whose update time is strictly later than the
\* stored last_updated (all of them when none is stored), in listing
\* order; the ChatGPT job takes no watermark and walks the whole listing.
C16_IncrementalAsymmetry ==
  run.limit = 0 =>
    IF run.name = Claude
    THEN LET lu == state.web[Claude].last_updated
             Later(it) == lu = None \/ it.updated_at[1] > lu[1]
             due == ItemIds(SelectSeq(run.server, Later))
         IN /\ IsPrefix(run.asked, due)
            /\ run.pc = "returned" => run.asked = due
    ELSE /\ run.since = None
         /\ (run.pc = "returned" /\ run.inserted = 0) => run.asked = NativeIds

C16_AtWatermarkSkippedLaterFetched ==
  /\ run.name = Claude /\ run.limit = 0 /\ run.pc = "returned"
  /\ state.web[Claude].last_updated # None
  /\ \E i, k \in 1..Len(run.server) :
       /\ run.server[i].updated_at = state.web[Claude].last_updated
       /\ run.server[i].id \notin Elems(run.asked)
       /\ run.server[k].id \in Elems(run.asked)

\* C19: when the detail fetch of a listed conversation fails, the run does
\* not fail, and the run returns the other conversations it listed.
C19_ItemFailureIsolation ==
  /\ run.failed # {} => run.pc # "raised"
  /\ (run.pc = "returned" /\ run.limit = 0 /\ run.since = None)
       => run.listed \ run.failed \subseteq Elems(run.convs)

\* The detail fetch of a conversation failed and the run raised.
C19_DetailFailureRaises ==
  /\ run.pc = "raised"
  /\ run.failed # {}
  /\ run.listed \ run.failed # {}

\* C20: within one run of fetch_chatgpt no native id has its detail
\* fetched more than once, even when the listing returns it on several
\* pages; the result holds at most one conversation per native id, and
\* with a limit greater than 0 it never holds more than limit
\* conversations.
C20_PaginationBookkeeping ==
  run.name = ChatGPT =>
    /\ NoRepeat(run.asked)
    /\ NoRepeat(run.convs)
    /\ run.limit > 0 => Len(run.convs) <= run.limit

C20_ListedTwiceFetchedOnce ==
  /\ run.name = ChatGPT /\ run.pc = "returned" /\ run.limit = 0
  /\ run.inserted > 0
  /\ Len(run.convs) >= 3
  /\ Len(run.convs) < run.offset

(***************************************************************************)
(* Codex timestamps.                                                       *)
(***************************************************************************)
\* The message a Codex log's event k yields has the id of f"{cid}:{k-1}".
CodexMessageOf(k) == IdOf(Codex, Key2(IdOf(Codex, CodexPath), k - 1))

\* C30: for every Codex session log, logs in which some events carry no
\* timestamp included, each message gets as created_at the timestamp of the
\* event it was derived from, and null when that event has none.
C30_OwnEventTimestamp ==
  (Merged /\ session.source = Codex) =>
    \A k \in 1..Len(obs.log) : \A i \in 1..Len(obs.last.msgs) :
      obs.last.msgs[i].id = CodexMessageOf(k)
        => obs.last.msgs[i].created_at = Get(obs.log[k].timestamp, None)

\* A message that follows an event without a timestamp.
C30_AfterEventWithoutTimestamp ==
  /\ Merged /\ session.source = Codex
  /\ Len(obs.log) >= 2
  /\ obs.log[1].timestamp = Missing
  /\ \E i \in 1..Len(obs.last.msgs) :
       /\ obs.last.msgs[i].id = CodexMessageOf(2)
       /\ obs.last.msgs[i].created_at # obs.log[2].timestamp

(***************************************************************************)
(* Malformed records in a session log.                                     *)
(***************************************************************************)
\* The session the source's parser makes of a log.
ParsedSession(events) ==
  IF session.source = ClaudeCode THEN parse_claude_code_session(session.jsonl, events)
  ELSE parse_codex_session(session.jsonl, events)

\* C21: a record of a session log that lacks the expected fields or has a
\* wrong shape is skipped: the job of the source does not fail, and the
\* records that yield a message on their own are still parsed and returned.
C21_BestEffortIngestion ==
  obs.rel # "none" =>
    /\ obs.rel # "failed"
    /\ \A k \in 1..Len(obs.log) :
         ParsedSession(<<obs.log[k]>>).found => obs.last.msgs # <<>>

\* The job failed on a log that holds a record with a message of its own.
C21_MalformedRecordFailsJob ==
  /\ obs.rel = "failed"
  /\ \E k \in 1..Len(obs.log) : ParsedSession(<<obs.log[k]>>).found
  /\ \E k \in 1..Len(obs.log) : ParsedSession(<<obs.log[k]>>).raised

(***************************************************************************)
(* fetch_json: one call, attempt by attempt.  Each attempt answers a       *)
(* document or fails with an HTTP error, a timeout or a body that is no    *)
(* JSON.                                                                   *)
(***************************************************************************)
MaxRetries == 2

Failures == {"HTTP 401", "HTTP 403", "HTTP 500", "timeout", "no JSON"}

\* A variant that waits one second after every failed attempt.
backoff_constant(i) == 1
\* time.sleep(1 + i)
backoff(i) == 1 + i

\* A variant that gives up one attempt early.
last_attempt_early(i, retries) == i + 1 >= retries
\* if i == retries: raise
last_attempt(i, retries) == i = retries

\* The call as it is entered: i is the loop variable of range(retries+1).
StartCall(retries) ==
  [retries |-> retries, i |-> 0, pc |-> "attempt", errors |-> <<>>, slept |-> <<>>,
   opened |-> 0, raised |-> "none"]

InitHttp ==
  /\ NoStore
  /\ fs = <<>> /\ state = <<>> /\ disk = <<>> /\ cycle = <<>>
  /\ \E retries \in 0..MaxRetries : run = StartCall(retries)

\* urlopen and json.loads of one attempt.
Attempt ==
  /\ run.pc = "attempt"
  /\ \/ run' = [run EXCEPT !.pc = "returned", !.opened = @ + 1]
     \/ \E e \in Failures :
          run' = IF last_attempt(run.i, run.retries)
                 THEN [run EXCEPT !.pc = "raised", !.opened = @ + 1,
                                  !.errors = Append(@, e), !.raised = e]
                 ELSE [run EXCEPT !.pc = "sleep", !.opened = @ + 1,
                                  !.errors = Append(@, e)]
  /\ UNCHANGED <<db, obs, content, extracted, idq, session, ids, fs, state, disk, cycle>>

\* The wait after a failed attempt that was not the last.
Backoff ==
  /\ run.pc = "sleep"
  /\ run' = [run EXCEPT !.pc = "attempt", !.i = @ + 1, !.slept = Append(@, backoff(run.i))]
  /\ UNCHANGED <<db, obs, content, extracted, idq, session, ids, fs, state, disk, cycle>>

NextHttp == Attempt \/ Backoff

SpecHttp == InitHttp /\ [][NextHttp]_vars

\* C22: fetch_json with retries = r makes at most r + 1 attempts; it
\* returns at the first attempt that succeeds; it waits 1 + i seconds after
\* the failed attempt i (counted from 0) before the next one; when every
\* attempt fails it raises the error of the last attempt as it is.
C22_Retry ==
  /\ run.opened <= run.retries + 1
  /\ \A k \in 1..Len(run.slept) : run.slept[k] = 1 + (k - 1)
  /\ run.pc = "attempt" => run.opened = Len(run.errors) /\ Len(run.slept) = Len(run.errors)
  /\ run.pc = "returned" =>
       /\ run.opened = Len(run.errors) + 1
       /\ Len(run.slept) = Len(run.errors)
       /\ run.raised = "none"
  /\ run.pc = "raised" =>
       /\ run.opened = run.retries + 1
       /\ Len(run.errors) = run.retries + 1
       /\ Len(run.slept) = run.retries
       /\ run.raised = run.errors[Len(run.errors)]

\* After a step that returned or raised, the call takes no further step.
C22_Final == run.pc \in {"returned", "raised"} => run' = run

C22_RetryPolicy == [](C22_Retry) /\ [][C22_Final]_vars

C22_ThirdAttemptRaises401 ==
  /\ run.pc = "raised" /\ run.retries = 2
  /\ run.opened = 3
  /\ run.slept = <<1, 2>>
  /\ run.raised = "HTTP 401"
  /\ run.errors[1] # "HTTP 401"

(***************************************************************************)
(* The sync command as a process: it opens the database, which takes the   *)
(* file's lock for as long as the process lives, loads the state document  *)
(* and runs do_sync once or, in watch mode, again and again.               *)
(***************************************************************************)
LockedMessage == "Database is locked by another process. Try again after it finishes."

\* A variant of get_db that opens the database whoever holds the lock.
get_db_unlocked(lock) == [opened |-> TRUE, error |-> "none", connects |-> 1]
\* get_db(): one duckdb.connect; "Conflicting lock is held" becomes a
\* ValueError.
get_db(lock) ==
  IF lock = "other" THEN [opened |-> FALSE, error |-> LockedMessage, connects |-> 1]
  ELSE [opened |-> TRUE, error |-> "none", connects |-> 1]

\* A variant that starts from an empty state whatever was saved.
load_state_forgets(doc) == EmptyState
\* json.loads(STATE_PATH.read_text()) of what save_state wrote, and the
\* three setdefault calls of sync.
load_state(doc) == doc

\* The process: whether it runs, who holds the lock, what the last start
\* raised after how many connects, and whether a process has ended before.
Off(lock, error, connects, ended) ==
  [pc |-> "off", lock |-> lock, error |-> error, connects |-> connects, ended |-> ended]

\* One session log of Claude Code and an import directory, either of which
\* may hold no session at all; no process, the lock free or held.
InitCommand ==
  /\ NoStore
  /\ \E blank \in SUBSET {ClaudeCode, ImportName} :
       fs = [mtime |-> [p \in {"~/.claude/projects/p/a.jsonl"} \cup ImportFiles |-> 0],
             cookies |-> {}, blank |-> blank, shared |-> {}]
  /\ state = EmptyState /\ disk = EmptyState
  /\ cycle = IdleCycle
  /\ \E lock \in {"free", "other"} : run = Off(lock, "none", 0, FALSE)

\* Another process opens the database for writing, or closes it.
OtherWriter ==
  /\ run.pc = "off"
  /\ run' = [run EXCEPT !.lock = IF @ = "free" THEN "other" ELSE "free"]
  /\ UNCHANGED <<db, obs, content, extracted, idq, session, ids, fs, state, disk, cycle>>

\* sync up to its first do_sync: conn = get_db(); init_schema(conn);
\* state = load_state().
StartSync ==
  /\ run.pc = "off"
  /\ LET conn == get_db(run.lock)
     IN IF conn.opened
        THEN /\ run' = [pc |-> "on", lock |-> "own", error |-> "none",
                        connects |-> conn.connects, ended |-> run.ended]
             /\ state' = load_state(disk)
        ELSE /\ run' = Off(run.lock, conn.error, conn.connects, run.ended)
             /\ UNCHANGED state
  /\ UNCHANGED <<db, obs, content, extracted, idq, session, ids, fs, disk, cycle>>

\* The process ends between two cycles: what it held in memory is gone.
Exit ==
  /\ run.pc = "on" /\ cycle.pc = "idle"
  /\ run' = Off("free", "none", 0, TRUE)
  /\ state' = EmptyState
  /\ UNCHANGED <<db, obs, content, extracted, idq, session, ids, fs, disk, cycle>>

\* do_sync, in a process that opened the database.
Cycle == run.pc = "on" /\ (Plan \/ Finish \/ Report \/ BeginMerge \/ CommitMerge \/ SetState \/ EndCycle)

NextCommand == Touch \/ OtherWriter \/ StartSync \/ Exit \/ Cycle

SpecCommand == InitCommand /\ [][NextCommand]_vars

\* C23: when another writer holds the database lock as sync starts, sync
\* fails with the error that the database is locked by another process,
\* after one attempt to open it; no job runs, no row is merged and the
\* state document is not written.
C23_Step ==
  (run.pc = "off" /\ run.lock = "other") =>
     /\ run'.pc = "off"
     /\ db' = db /\ disk' = disk /\ cycle' = cycle
     /\ (run'.lock = "other" /\ fs' = fs) =>
          run'.error = LockedMessage /\ run'.connects = 1

C23_NoCycleWithoutDb == run.pc = "off" => cycle.pc = "idle"

C23_StorageLock == [](C23_NoCycleWithoutDb) /\ [][C23_Step]_vars

C23_LockedAfterEarlierSync ==
  /\ run.pc = "off" /\ run.lock = "other" /\ run.error = LockedMessage
  /\ run.connects = 1
  /\ db # init_schema
  /\ \E p \in ClaudeCodeFiles \cap DOMAIN fs.mtime :
       fs.mtime[p] > disk.local[ClaudeCode].files[p]

\* C25: once a cycle has merged the job of a file-backed source, with or
\* without rows, a later cycle plans no job for that source while the
\* modification times of its files are what they were in that cycle, in
\* the same process and in a new process that loads the saved state.
C25_Quiescence ==
  cycle.pc = "running" =>
    \A n \in FileBacked :
      (/\ cycle.synced[n].ok
       /\ \A p \in Matched(n) \cap DOMAIN fs.mtime : fs.mtime[p] = cycle.synced[n].at[p])
        => JobsNamed(n) = {}

C25_NewProcessSkipsEmptyImport ==
  /\ cycle.pc = "running" /\ run.ended
  /\ ImportName \in fs.blank
  /\ cycle.synced[ImportName].ok
  /\ \E p \in ImportFiles : fs.mtime[p] > 0 /\ fs.mtime[p] = cycle.synced[ImportName].at[p]
  /\ JobsNamed(ImportName) = {}
  /\ JobsNamed(ClaudeCode) # {}
  /\ db = init_schema

(***************************************************************************)
(* detect_source: the tag of a path, from what the path is, how it is      *)
(* named and, for a plain file, what json.loads gives for its text.        *)
(***************************************************************************)
Mapping == <<109, 97, 112, 112, 105, 110, 103>>            \* "mapping"
ChatMessages == <<99, 104, 97, 116, 95, 109, 101, 115, 115, 97, 103, 101, 115>>  \* "chat_messages"
Title == <<116, 105, 116, 108, 101>>  \* "title"
ZipSuffix == <<46, 122, 105, 112>>  \* ".zip"
Dot == 46
FileNames ==
  {<<97, 46, 106, 115, 111, 110>>,
   <<99, 46, 122, 105, 112>>,
   <<99, 46, 90, 73, 80>>,
   <<67, 104, 97, 116, 71, 80, 84, 46, 106, 115, 111, 110>>,
   <<46, 122, 105, 112>>}
\* a.json, c.zip, c.ZIP, ChatGPT.json, .zip

\* A JSON value: an object with its keys, a list with its items, a string
\* with its text, or a number.
Object(keys) == [kind |-> "object", keys |-> keys, items |-> <<>>, text |-> <<>>]
List(items) == [kind |-> "list", keys |-> {}, items |-> items, text |-> <<>>]
String(text) == [kind |-> "string", keys |-> {}, items |-> <<>>, text |-> text]
Number == [kind |-> "number", keys |-> {}, items |-> <<>>, text |-> <<>>]

\* What reading a file gives: no text at all, text that is no JSON, or a
\* JSON value.
Unreadable == [kind |-> "unreadable", keys |-> {}, items |-> <<>>, text |-> <<>>]
NoJson == [kind |-> "no json", keys |-> {}, items |-> <<>>, text |-> <<>>]
Documents ==
  {Unreadable, NoJson, List(<<>>), Object({Mapping}), List(<<Number>>),
   List(<<String(Mapping)>>)}
    \cup {List(<<Object(keys)>>) : keys \in SUBSET {Mapping, ChatMessages, Title}}
    \cup {List(<<Object({ChatMessages}), Object({Mapping})>>),
          List(<<Object({Title}), Object({ChatMessages})>>)}

Paths ==
  [is_dir : BOOLEAN, sessions : BOOLEAN, name : FileNames, doc : Documents]

\* path.suffix: the name from its last dot on, when that dot is neither
\* the first nor the last character.
Suffix(name) ==
  LET dots == {k \in 2..Len(name) : name[k] = Dot}
  IN IF dots = {} \/ Max(dots) = Len(name) THEN <<>>
     ELSE SubSeq(name, Max(dots), Len(name))

\* sub in text, for two strings.
InString(sub, text) ==
  \E k \in 0..(Len(text) - Len(sub)) : SubSeq(text, k + 1, k + Len(sub)) = sub

\* key in value, as Python evaluates it.
In(key, value) ==
  CASE value.kind = "object" -> [raised |-> "none", is |-> key \in value.keys]
    [] value.kind = "list" ->
         [raised |-> "none",
          is |-> \E k \in 1..Len(value.items) : value.items[k] = String(key)]
    [] value.kind = "string" -> [raised |-> "none", is |-> InString(key, value.text)]
    [] OTHER -> [raised |-> "TypeError", is |-> FALSE]

\* data[0], as Python evaluates it.
First(data) ==
  CASE data.kind = "list" ->
         IF data.items = <<>> THEN [raised |-> "IndexError", value |-> Number]
         ELSE [raised |-> "none", value |-> data.items[1]]
    [] data.kind = "string" ->
         IF data.text = <<>> THEN [raised |-> "IndexError", value |-> Number]
         ELSE [raised |-> "none", value |-> String(<<data.text[1]>>)]
    [] data.kind = "object" -> [raised |-> "KeyError", value |-> Number]
    [] OTHER -> [raised |-> "TypeError", value |-> Number]

Tag(source) == [source |-> source, raised |-> "none"]
Raises(error) == [source |-> None, raised |-> error]

\* A variant that looks for chat_messages before mapping.
detect_source_claude_first(path) ==
  IF path.is_dir THEN Tag(IF path.sessions THEN Codex ELSE ClaudeCode)
  ELSE IF Suffix(path.name) = ZipSuffix \/ InString(ChatGPT, Lower(path.name))
  THEN Tag(ChatGPT)
  ELSE IF path.doc.kind = "unreadable" THEN Raises("OSError")
  ELSE IF path.doc.kind = "no json" THEN Raises("JSONDecodeError")
  ELSE LET first == First(path.doc)
           c == In(ChatMessages, first.value)
           m == In(Mapping, first.value)
       IN IF first.raised # "none" THEN Raises(first.raised)
          ELSE IF c.raised # "none" THEN Raises(c.raised)
          ELSE IF c.is THEN Tag(Claude)
          ELSE Tag(ChatGPT)

detect_source(path) ==
  IF path.is_dir THEN Tag(IF path.sessions THEN Codex ELSE ClaudeCode)
  ELSE IF Suffix(path.name) = ZipSuffix \/ InString(ChatGPT, Lower(path.name))
  THEN Tag(ChatGPT)
  ELSE IF path.doc.kind = "unreadable" THEN Raises("OSError")
  ELSE IF path.doc.kind = "no json" THEN Raises("JSONDecodeError")
  ELSE LET first == First(path.doc)
           m == In(Mapping, first.value)
           c == In(ChatMessages, first.value)
       IN IF first.raised # "none" THEN Raises(first.raised)
          ELSE IF m.raised # "none" THEN Raises(m.raised)
          ELSE IF m.is THEN Tag(ChatGPT)
          ELSE IF c.is THEN Tag(Claude)
          ELSE Tag(ChatGPT)

\* A path to detect; a directory has no document and only a directory has
\* a sessions subdirectory.
InitDetect ==
  /\ NoStore
  /\ fs = <<>> /\ state = <<>> /\ disk = <<>> /\ cycle = <<>>
  /\ \E path \in Paths :
       /\ path.is_dir => path.doc = Unreadable
       /\ path.sessions => path.is_dir
       /\ run = [pc |-> "call", path |-> path, result |-> Raises("none")]

\* src = detect_source(path)
Detect ==
  /\ run.pc = "call"
  /\ run' = [run EXCEPT !.pc = "done", !.result = detect_source(run.path)]
  /\ UNCHANGED <<db, obs, content, extracted, idq, session, ids, fs, state, disk, cycle>>

NextDetect == Detect

SpecDetect == InitDetect /\ [][NextDetect]_vars

\* The name ends in ".zip" after at least one other character, or holds
\* "chatgpt" in any mix of cases.
NamedAsExport(path) ==
  \/ Len(path.name) > 4 /\ SubSeq(path.name, Len(path.name) - 3, Len(path.name)) = ZipSuffix
  \/ \E k \in 1..(Len(path.name) - 6) : Lower(SubSeq(path.name, k, k + 6)) = ChatGPT

\* C24: the rules of detect_source apply in a fixed order and the first
\* that matches decides: a directory with a sessions subdirectory is
\* codex and any other directory claude-code; a file named *.zip or with
\* "chatgpt" in its name is chatgpt whatever it holds; otherwise a document
\* that cannot be read, is no JSON or is an empty list is an error without
\* a tag, and a list of records is chatgpt when its first record has a
\* mapping field, else claude when it has a chat_messages field, else
\* chatgpt.
C24_RuleOrder ==
  run.pc = "done" =>
    LET path == run.path
        doc == path.doc
    IN IF path.is_dir
       THEN run.result = Tag(IF path.sessions THEN Codex ELSE ClaudeCode)
       ELSE IF NamedAsExport(path) THEN run.result = Tag(ChatGPT)
       ELSE IF doc.kind \in {"unreadable", "no json"} \/ doc = List(<<>>)
       THEN run.result.raised # "none" /\ run.result.source = None
       ELSE (doc.kind = "list" /\ doc.items[1].kind = "object") =>
              run.result =
                Tag(IF Mapping \in doc.items[1].keys THEN ChatGPT
                    ELSE IF ChatMessages \in doc.items[1].keys THEN Claude
                    ELSE ChatGPT)

C24_FirstRecordWithBothFields ==
  /\ run.pc = "done"
  /\ ~run.path.is_dir /\ ~NamedAsExport(run.path)
  /\ run.path.doc = List(<<Object({Mapping, ChatMessages})>>)
  /\ run.result = Tag(ChatGPT)


(***************************************************************************)
(* The runs of the API normalizers under the scheduling of the program:    *)
(* a request that is sent is answered or fails, and the loop goes on, so   *)
(* every step of the function that can be taken is taken in the end.  The  *)
(* account's owner creating a conversation is under no such obligation.    *)
(***************************************************************************)
SpecFetchLive ==
  /\ SpecFetch
  /\ WF_vars(ListPage) /\ WF_vars(ParsePage) /\ WF_vars(ListAll) /\ WF_vars(ClaudeItem)

Ended == run.pc \in {"returned", "raised"}
RaisedOnlyByRequest == run.pc = "raised" => run.error = "request"

\* C26: the paging loop of fetch_chatgpt ends for every finite listing, and
\* it ends by returning its result unless a request failed: an empty page,
\* a page whose ids were all seen in this run and the limit being reached
\* end the loop without an exception.
C26_PaginationTerminates == <>Ended /\ [](run.name = ChatGPT => RaisedOnlyByRequest)

\* The listing answered a page of seen ids only, and the run raised.
C26_SeenPageRaises ==
  /\ run.name = ChatGPT /\ run.pc = "raised" /\ run.error = "ValueError"
  /\ run.got > 0
  /\ run.failed = {}

\* Every run ends, by returning or by raising.
C26_EveryRunEnds == <>Ended

(***************************************************************************)
(* One conversation of a ChatGPT or Claude account, ingested through the   *)
(* product's export file (parse_chatgpt, parse_claude) and through its API *)
(* (fetch_chatgpt, fetch_claude), each at most MaxIngests times in all.    *)
(* A ChatGPT node carries a list of string parts; a Claude message carries *)
(* a text, a list of content blocks, or both.                              *)
(***************************************************************************)
MaxNodes == 2
MaxIngests == 2

NativeId == <<107>>                                  \* "k"
NodeIds == <<<<120>>, <<121>>, <<122>>, <<119>>>>    \* "x", "y", "z", "w"
Titles == <<84>>                                     \* "T"
PartLists ==
  {<<>>, <<StrItem(<<97>>)>>, <<StrItem(<<97>>), StrItem(<<98>>)>>, <<StrItem(<<32>>)>>}
ClaudeTexts == {Missing, <<97>>}
ClaudeContents ==
  {MissingContent,
   ListContent(<<Block("text", <<97>>, Missing, Missing, NoInput)>>),
   ListContent(<<Block("tool_use", Missing, Missing, <<82>>, EmptyInput)>>)}

Node(nid, parts, text, blocks) ==
  [nid |-> nid, role |-> "user", parts |-> parts, text |-> text, content |-> blocks]
NativeNodes(product, k) ==
  IF product = ChatGPT
  THEN {Node(NodeIds[k], parts, Missing, MissingContent) : parts \in PartLists}
  ELSE {Node(NodeIds[k], <<>>, text, blocks) : text \in ClaudeTexts, blocks \in ClaudeContents}
NativeConversations(product) ==
  UNION {{[product |-> product, id |-> NativeId, title |-> Titles, nodes |-> nodes] :
            nodes \in {ns \in [1..n -> UNION {NativeNodes(product, k) : k \in 1..n}] :
                         \A k \in 1..n : ns[k] \in NativeNodes(product, k)}} :
         n \in 0..(IF MaxNodes < Len(NodeIds) THEN MaxNodes ELSE Len(NodeIds))}

\* The keys gen_id is called with for these conversations.
NativeKeys ==
  {<<p, NativeId>> : p \in WebNames}
    \cup {<<p, gen_id(p, NativeId) \o <<58>> \o NodeIds[k]>> :
            p \in WebNames, k \in 1..Len(NodeIds)}
    \cup {<<p, gen_id(p, NativeId) \o <<58>>>> : p \in WebNames}

\* elif isinstance(part, str) and part.strip()
IsTextPart(part) == IsStr(part) /\ Strip(part.str) # <<>>

\* The rows parse_chatgpt and parse_item append for one node of the
\* mapping: one message row for every string part that is not blank, all
\* with the id of the node.
node_rows(cid, node) ==
  LET mid == IdOf(ChatGPT, cid \o <<58>> \o node.nid)
      texts == SelectSeq(node.parts, IsTextPart)
  IN [i \in 1..Len(texts) |-> MsgRow(mid, cid, node.role, Strip(texts[i].str), None, None)]

\* parse_chatgpt(path), for the conversations of the file.
parse_chatgpt(data) ==
  LET cid(c) == IdOf(ChatGPT, c.id)
      Conv(c) == ConvRow(cid(c), ChatGPT, c.title, None, None, None)
      Rows(c) == Flatten([k \in 1..Len(c.nodes) |-> node_rows(cid(c), c.nodes[k])])
  IN ParseResult([i \in 1..Len(data) |-> Conv(data[i])],
                 Flatten([i \in 1..Len(data) |-> Rows(data[i])]), <<>>, <<>>, <<>>, <<>>)

\* fetch_chatgpt.parse_item(item), with the detail the API answers for it.
parse_item(item) ==
  LET cid == IdOf(ChatGPT, item.id)
  IN [conv |-> ConvRow(cid, ChatGPT, item.title, None, None, None),
      msgs |-> Flatten([k \in 1..Len(item.nodes) |-> node_rows(cid, item.nodes[k])])]

\* fetch_chatgpt(browser), for the items of the listing.
fetch_chatgpt(items) ==
  ParseResult([i \in 1..Len(items) |-> parse_item(items[i]).conv],
              Flatten([i \in 1..Len(items) |-> parse_item(items[i]).msgs]),
              <<>>, <<>>, <<>>, <<>>)

\* m.get("text") or m.get("content", "")
text_or_content(m) ==
  IF Truthy(m.text) THEN StrContent(m.text)
  ELSE IF m.content.kind = "missing" THEN StrContent(<<>>) ELSE m.content

\* parse_claude(path): parse_conv for the conversations of the file.
parse_claude(data) ==
  LET cid(c) == IdOf(Claude, c.id)
      Conv(c) == ConvRow(cid(c), Claude, c.title, None, None, None)
      Emits(m) == extract_content(text_or_content(m)).text # <<>>
      Row(c, m) ==
        LET ec == extract_content(text_or_content(m))
        IN MsgRow(IdOf(Claude, cid(c) \o <<58>> \o m.nid), cid(c), m.role, ec.text,
                  ec.thinking, None)
      Rows(c) == LET ms == SelectSeq(c.nodes, Emits)
                 IN [k \in 1..Len(ms) |-> Row(c, ms[k])]
  IN ParseResult([i \in 1..Len(data) |-> Conv(data[i])],
                 Flatten([i \in 1..Len(data) |-> Rows(data[i])]), <<>>, <<>>, <<>>, <<>>)

\* A variant that finds no uuid in a message of the API.
message_key_without_uuid(m, k) == <<>>
\* m.get('uuid', '')
message_key(m, k) == Get(m.nid, <<>>)

\* "\n".join(text_parts).strip() of fetch_claude: the text blocks of a
\* content list, or the text field.
api_text(m) ==
  LET IsText(b) == IsDict(b) /\ b.type = "text"
      TextOf(b) == IF IsDict(b) THEN Get(b.text, <<>>) ELSE b.str
      IsPart(b) == IsText(b) \/ IsStr(b)
      parts == IF m.content.kind = "list"
               THEN LET bs == SelectSeq(m.content.items, IsPart)
                    IN [k \in 1..Len(bs) |-> TextOf(bs[k])]
               ELSE <<Get(m.text, <<>>)>>
  IN Strip(JoinLines(parts))

\* fetch_claude(browser), for the items of the listing with their details.
fetch_claude(items) ==
  LET cid(c) == IdOf(Claude, c.id)
      Conv(c) == ConvRow(cid(c), Claude, c.title, None, None, None)
      Rows(c) ==
        LET at == {k \in 1..Len(c.nodes) : api_text(c.nodes[k]) # <<>>}
            Emitted(k) == k \in at
            places == SelectSeq([k \in 1..Len(c.nodes) |-> k], Emitted)
        IN [j \in 1..Len(places) |->
              LET m == c.nodes[places[j]]
              IN MsgRow(IdOf(Claude, cid(c) \o <<58>> \o message_key(m, places[j])), cid(c),
                        m.role, api_text(m), None, None)]
  IN ParseResult([i \in 1..Len(items) |-> Conv(items[i])],
                 Flatten([i \in 1..Len(items) |-> Rows(items[i])]), <<>>, <<>>, <<>>, <<>>)

InitNative ==
  /\ db = init_schema
  /\ obs = NoCall
  /\ content = AbsentContent
  /\ extracted = Pending
  /\ idq = NoQuery
  /\ session = NoLog
  /\ ids = [k \in NativeKeys |-> gen_id(k[1], k[2])]
  /\ fs = <<>> /\ state = <<>> /\ disk = <<>> /\ cycle = <<>>
  /\ \E product \in WebNames : \E conv \in NativeConversations(product) :
       run = [conv |-> conv, done |-> <<>>]

\* convos import of the export file: upsert(conn, parse_source(path)).
Import ==
  /\ Len(run.done) < MaxIngests
  /\ Upsert(IF run.conv.product = ChatGPT THEN parse_chatgpt(<<run.conv>>)
            ELSE parse_claude(<<run.conv>>), <<>>)
  /\ run' = [run EXCEPT !.done = Append(@, "export")]
  /\ UNCHANGED <<content, extracted, idq, session, ids, fs, state, disk, cycle>>

\* The web job of the product: upsert(conn, fetcher(browser)).
Fetch ==
  /\ Len(run.done) < MaxIngests
  /\ Upsert(IF run.conv.product = ChatGPT THEN fetch_chatgpt(<<run.conv>>)
            ELSE fetch_claude(<<run.conv>>), <<>>)
  /\ run' = [run EXCEPT !.done = Append(@, "api")]
  /\ UNCHANGED <<content, extracted, idq, session, ids, fs, state, disk, cycle>>

NextNative == Import \/ Fetch

SpecNative == InitNative /\ [][NextNative]_vars

Stored(table, id) == {row \in DOMAIN table : row.id = id}

\* C27: the message ids of a normalizer's ParseResult are pairwise
\* distinct, so that merging it stores as many message rows as it lists
\* and the text of every listed row is in storage.
C27_OneRowPerTurn ==
  Merged =>
    /\ NoRepeat([i \in 1..Len(obs.last.msgs) |-> obs.last.msgs[i].id])
    /\ \A i \in 1..Len(obs.last.msgs) :
         \E row \in Stored(db.messages, obs.last.msgs[i].id) :
           row.content = obs.last.msgs[i].content
    /\ Len(run.done) = 1 => BagCardinality(db.messages) = Len(obs.last.msgs)

\* A node with two parts gave two rows with one id; one text is stored.
C27_TwoPartsOneRow ==
  /\ Merged /\ run.conv.product = ChatGPT /\ Len(run.done) = 1
  /\ Len(obs.last.msgs) = 2
  /\ obs.last.msgs[1].id = obs.last.msgs[2].id
  /\ obs.last.msgs[1].content # obs.last.msgs[2].content
  /\ BagCardinality(db.messages) = 1

NativeMessageId(k) ==
  IdOf(run.conv.product,
       IdOf(run.conv.product, run.conv.id) \o <<58>> \o run.conv.nodes[k].nid)
NativeMessageIds == {NativeMessageId(k) : k \in 1..Len(run.conv.nodes)}
BothPaths == {"export", "api"} \subseteq Elems(run.done)

\* C28: the export normalizer and the API normalizer of a product give a
\* conversation the same conversation id and each of its messages the same
\* message id, so that after the conversation came in through both, in
\* either order, storage holds one conversation row and one row per
\* message.
C28_SameIdentity ==
  /\ Merged =>
       /\ ListIds(obs.last.convs) = {IdOf(run.conv.product, run.conv.id)}
       /\ ListIds(obs.last.msgs) \subseteq NativeMessageIds
  /\ BothPaths =>
       /\ BagCardinality(db.conversations) = 1
       /\ TableIds(db.messages) \subseteq NativeMessageIds
       /\ BagCardinality(db.messages) = Cardinality(TableIds(db.messages))
       /\ \A k \in 1..Len(run.conv.nodes) :
            (\E i \in 1..Len(obs.last.msgs) : obs.last.msgs[i].id = NativeMessageId(k))
              => Cardinality(Stored(db.messages, NativeMessageId(k))) = 1

C28_ApiThenExport ==
  /\ run.done = <<"api", "export">>
  /\ run.conv.product = Claude
  /\ Len(run.conv.nodes) = 2
  /\ Len(obs.last.msgs) = 2
  /\ obs.ret[6] = 0 /\ obs.ret[7] = 0
  /\ BagCardinality(db.conversations) = 1
  /\ BagCardinality(db.messages) = 2

(***************************************************************************)
(* A cycle whose import path is a ChatGPT export file holding a            *)
(* conversation that the ChatGPT job fetches as well, next to a Codex log. *)
(***************************************************************************)
InitOrder ==
  /\ NoStore
  /\ fs = [mtime |-> [p \in ImportFiles \cup CodexFiles |-> 1],
           cookies |-> {<<ChatGPT, "safari">>}, blank |-> {},
           shared |-> {ImportName, ChatGPT}]
  /\ state = EmptyState /\ disk = EmptyState
  /\ cycle = IdleCycle
  /\ run = <<>>

NextOrder == Plan \/ Finish \/ Report \/ BeginMerge \/ CommitMerge \/ SetState \/ EndCycle

SpecOrder == InitOrder /\ [][NextOrder]_vars

\* The jobs of the cycle that were merged, in the order they were planned.
DoneJobs == LET Done(i) == cycle.status[i] = "done"
            IN SelectSeq([i \in 1..Len(cycle.jobs) |-> i], Done)

\* Storage and totals after merging the results of jobs one after another.
RECURSIVE MergedInOrder(_, _)
MergedInOrder(acc, order) ==
  IF order = <<>> THEN acc
  ELSE LET r == Result(cycle.jobs[Head(order)])
           u == upsert(acc.db, r)
       IN MergedInOrder([db |-> u.db, newc |-> acc.newc + u.ret[6],
                         updc |-> acc.updc + u.ret[7]], Tail(order))

\* The state dict after the planner's writes and the set_state of jobs.
RECURSIVE StateInOrder(_, _)
StateInOrder(st, order) ==
  IF order = <<>> THEN st
  ELSE LET j == cycle.jobs[Head(order)]
       IN StateInOrder(set_state(st, j.section, j.key, j.val), Tail(order))
Planned(st) ==
  LET s1 == IF cycle.plans[ChatGPT].writes
            THEN set_state(st, "web", ChatGPT, cycle.plans[ChatGPT].val) ELSE st
  IN IF cycle.plans[Claude].writes
     THEN set_state(s1, "web", Claude, cycle.plans[Claude].val) ELSE s1

\* The first cycle that merged anything has ended.
FirstCycleEnded == cycle.pc = "idle" /\ cycle.jobs # <<>> /\ cycle.before = EmptyState

\* C29: for the jobs a cycle planned and the results they returned, storage,
\* the state document and the totals of new and updated conversations at
\* the end of the cycle are what merging the results in the planned order
\* gives, whatever the order in which the jobs completed, also when two
\* jobs return rows with the same ids.
C29_OrderIndependence ==
  FirstCycleEnded =>
    LET expected == MergedInOrder([db |-> init_schema, newc |-> 0, updc |-> 0], DoneJobs)
    IN /\ db = expected.db
       /\ cycle.newc = expected.newc /\ cycle.updc = expected.updc
       /\ state = StateInOrder(Planned(cycle.before), DoneJobs)
       /\ disk = state

\* The fetched conversation was merged before the export that holds it.
C29_ExportMergedLast ==
  /\ FirstCycleEnded
  /\ Len(cycle.jobs) = 3 /\ Len(DoneJobs) = 3
  /\ \E row \in Stored(db.conversations, SharedId) : row.title = <<79>>
  /\ BagCardinality(db.messages) = 2
  /\ cycle.newc = 2 /\ cycle.updc = 0

====
